---- MODULE Spec2Model ----
(***************************************************************************)
(* Model of the project generator: the response cache (CacheManager), the  *)
(* model gateway (OllamaClient.generate) and project materialisation       *)
(* (CursorProjectGenerator.create_project).                                *)
(*                                                                         *)
(* Texts, prompts and model names are sequences of characters, a character *)
(* being a one-letter string or one of the named characters "CR", "LF".    *)
(***************************************************************************)
EXTENDS Integers, Sequences, FiniteSets, TLC

\* Python's None, a value that is no text.
None == <<"None">>

\* ---------------------------------------------------------------- bounds
\* Largest value of config["max_retries"] explored (0 .. MaxRetries).
MaxRetries == 2
\* Largest number of entries found in the cache directory at start-up.
MaxPreexisting == 1
\* Number of direct store/lookup calls explored on a CacheManager.
MaxCacheOps == 3

\* ---------------------------------------------------------------- inputs
\* Model identifiers; Ollama model names carry a tag after a colon.
Models == { <<"m">>, <<"m", ":", "t">> }
\* config["model_name"], the model used when generate gets no override.
DefaultModel == <<"m">>
\* Prompts; a prompt is free text and may hold a colon.
Prompts == { <<"p">>, <<"t", ":", "p">> }
\* Response texts of the transports: empty, plain, and one with a carriage return.
Texts == { <<>>, <<"x">>, <<"y", "CR", "LF">> }
\* The text of a cache entry left by an earlier run.
EarlierText == <<"z">>
\* Exceptions a transport call can raise.
Errors == { <<"e1">>, <<"e2">> }
\* time.sleep(2) between two attempts.
RetryDelay == 2

Pairs == Models \X Prompts

\* ------------------------------------------------------------ CacheManager
\* hashlib.md5(...).hexdigest(): modelled as collision-free (one digest per content).
MD5(content) == <<"md5">> \o content

\* get_cache_key: the digest of f"{model_name}:{prompt}".
get_cache_key(prompt, model_name) == MD5(model_name \o <<":">> \o prompt)

Keys == { get_cache_key(pr[2], pr[1]) : pr \in Pairs }

\* Text written through open(path, "w"): "\n" becomes os.linesep (POSIX: "\n").
LineSep == <<"LF">>
RECURSIVE WriteText(_)
WriteText(s) ==
    IF s = <<>> THEN <<>>
    ELSE (IF Head(s) = "LF" THEN LineSep ELSE <<Head(s)>>) \o WriteText(Tail(s))

\* Text read through Path.read_text(): universal newlines, "\r\n" and "\r" become "\n".
RECURSIVE ReadText(_)
ReadText(s) ==
    IF s = <<>> THEN <<>>
    ELSE IF Head(s) = "CR"
         THEN IF Len(s) >= 2 /\ s[2] = "LF"
              THEN <<"LF">> \o ReadText(Tail(Tail(s)))
              ELSE <<"LF">> \o ReadText(Tail(s))
         ELSE <<Head(s)>> \o ReadText(Tail(s))

\* get_from_cache: None when disabled or when the entry file does not exist.
get_from_cache(enabled, files, prompt, model_name) ==
    IF ~enabled THEN None
    ELSE LET cache_key == get_cache_key(prompt, model_name)
         IN  IF cache_key \in DOMAIN files
             THEN ReadText(files[cache_key].text)
             ELSE None

\* save_to_cache, mutated: writes the entry even when the cache is disabled.
save_to_cache_always(enabled, files, prompt, model_name, response) ==
    LET cache_key == get_cache_key(prompt, model_name)
        entry == [text |-> WriteText(response), old |-> FALSE]
    IN  [k \in DOMAIN files \cup {cache_key} |->
            IF k = cache_key THEN entry ELSE files[k]]

\* save_to_cache: the files of the cache directory after the call.
save_to_cache(enabled, files, prompt, model_name, response) ==
    IF ~enabled THEN files
    ELSE LET cache_key == get_cache_key(prompt, model_name)
             entry == [text |-> WriteText(response), old |-> FALSE]
         IN  [k \in DOMAIN files \cup {cache_key} |->
                 IF k = cache_key THEN entry ELSE files[k]]

VARIABLES
    cache_enabled,     \* CacheManager.enabled
    cache_dir_exists,  \* whether cache_dir exists on disk
    cache_files,       \* the entry files of cache_dir: key -> [text, old]
    disk0,             \* history: the cache directory as it was before construction
    evict_error,       \* history: _clean_old_cache caught an exception
    cpc,               \* CacheManager: "new" | "ready"
    last_op,           \* history: the last direct store/lookup call and its result
    stored,            \* history: pair -> the text last stored for it, or None
    n_ops              \* number of direct store/lookup calls made

cacheVars == <<cache_enabled, cache_dir_exists, cache_files, disk0, evict_error, cpc,
               last_op, stored, n_ops>>

NoOp == [op |-> "none", model |-> None, prompt |-> None, result |-> None]

\* The cache directories a run can find: absent, or holding a few entries of
\* earlier runs, some older than max_age_days.
InitialDisks ==
    { [dir |-> FALSE, files |-> <<>>] } \cup
    { [dir |-> TRUE, files |-> f] :
        f \in UNION { [S -> [text : { WriteText(EarlierText) }, old : BOOLEAN]] :
                        S \in { T \in SUBSET Keys : Cardinality(T) <= MaxPreexisting } } }

InitCacheOn(disks) ==
    /\ disk0 \in disks
    /\ cache_dir_exists = disk0.dir
    /\ cache_files = disk0.files
    /\ cache_enabled = FALSE
    /\ evict_error = FALSE
    /\ cpc = "new"
    /\ last_op = NoOp
    /\ stored = [pr \in Pairs |-> None]
    /\ n_ops = 0

InitCache == InitCacheOn(InitialDisks)

\* _clean_old_cache, mutated: the age test inverted, the newer entries go.
clean_any_cache(files, removed) ==
    [k \in DOMAIN files \ { j \in DOMAIN files : ~files[j].old } |-> files[k]]

\* _clean_old_cache: unlinks the entries older than max_age_days; an exception
\* stops the loop where it is and is swallowed, so any subset of the old
\* entries may be gone (glob order is arbitrary).
clean_old_cache(files, removed) == [k \in DOMAIN files \ removed |-> files[k]]

OldKeys(files) == { k \in DOMAIN files : files[k].old }

\* CacheManager.__init__(cache_dir, enabled): mkdir and eviction only when enabled.
CacheManagerInit(enabled) ==
    /\ cache_enabled' = enabled
    /\ IF enabled
       THEN /\ cache_dir_exists' = TRUE
            /\ \E removed \in SUBSET OldKeys(cache_files) :
                   /\ cache_files' = clean_old_cache(cache_files, removed)
                   /\ evict_error' \in IF removed = OldKeys(cache_files)
                                       THEN BOOLEAN ELSE {TRUE}
       ELSE UNCHANGED <<cache_dir_exists, cache_files, evict_error>>

\* A CacheManager is constructed on its own.
NewCacheManager ==
    /\ cpc = "new"
    /\ \E enabled \in BOOLEAN : CacheManagerInit(enabled)
    /\ cpc' = "ready"
    /\ UNCHANGED <<disk0, last_op, stored, n_ops>>

\* cache.save_to_cache(prompt, model, response)
SaveToCache ==
    /\ cpc = "ready"
    /\ n_ops < MaxCacheOps
    /\ \E pr \in Pairs, x \in Texts :
        /\ cache_files' = save_to_cache(cache_enabled, cache_files, pr[2], pr[1], x)
        /\ last_op' = [op |-> "store", model |-> pr[1], prompt |-> pr[2], result |-> None]
        /\ stored' = [stored EXCEPT ![pr] = x]
    /\ n_ops' = n_ops + 1
    /\ UNCHANGED <<cache_enabled, cache_dir_exists, disk0, evict_error, cpc>>

\* cache.get_from_cache(prompt, model)
GetFromCache ==
    /\ cpc = "ready"
    /\ n_ops < MaxCacheOps
    /\ \E pr \in Pairs :
        last_op' = [op |-> "lookup", model |-> pr[1], prompt |-> pr[2],
                    result |-> get_from_cache(cache_enabled, cache_files, pr[2], pr[1])]
    /\ n_ops' = n_ops + 1
    /\ UNCHANGED <<cache_enabled, cache_dir_exists, cache_files, disk0, evict_error, cpc, stored>>

\* ------------------------------------------------------------ OllamaClient
VARIABLES
    gpc,            \* "new" | "unavailable" | "idle" | "attempt" | "returned" | "raised"
    max_retries,    \* OllamaClient.max_retries
    api_available,  \* OllamaClient.ollama_api_available
    cli_available,  \* OllamaClient.ollama_cli_available
    g_prompt,       \* generate: prompt
    g_model,        \* generate: model = model_name or self.model_name
    attempt,        \* generate: the loop variable
    log,            \* history: the transport attempts of this call, in order
    delays,         \* history: the sleeps of this call, in seconds
    g_result,       \* generate: the value returned
    g_error,        \* generate: the exception raised
    served,         \* history: pair -> the text a transport last returned for it
    prior,          \* history: served[pair] when this call started
    files_at_call,  \* history: cache_files when this call started
    n_calls         \* number of generate calls made

gatewayVars == <<gpc, max_retries, api_available, cli_available, g_prompt, g_model,
                 attempt, log, delays, g_result, g_error, served, prior,
                 files_at_call, n_calls>>

\* Number of generate calls explored on one client.
MaxCalls == 2

InitGateway ==
    /\ gpc = "new"
    /\ max_retries = 0
    /\ api_available = FALSE
    /\ cli_available = FALSE
    /\ g_prompt = None
    /\ g_model = None
    /\ attempt = 0
    /\ log = <<>>
    /\ delays = <<>>
    /\ g_result = None
    /\ g_error = None
    /\ served = [pr \in Pairs |-> None]
    /\ prior = None
    /\ files_at_call = <<>>
    /\ n_calls = 0

\* Python truthiness of an Optional[str]: None and "" are false.
Truthy(v) == v # None /\ v # <<>>

\* model_name or self.model_name
EffectiveModel(model_name) == IF Truthy(model_name) THEN model_name ELSE DefaultModel

\* The transport, mutated: the executable whenever its probe succeeded.
TransportPreferringCli == IF cli_available THEN "cli" ELSE "api"

\* The transport a generate call uses: the API when its probe succeeded.
Transport == IF api_available THEN "api" ELSE "cli"

\* if attempt + 1 == self.max_retries, mutated: never the last attempt's turn to raise.
IsLastAttemptLate(a, retries) == a = retries

\* if attempt + 1 == self.max_retries: the failed attempt was the last one.
IsLastAttempt(a, retries) == a + 1 = retries

\* OllamaClient.__init__: the two probes, RuntimeError when both fail, then the cache.
NewOllamaClient ==
    /\ gpc = "new"
    /\ \E cli \in BOOLEAN, api \in BOOLEAN, retries \in 0..MaxRetries, enabled \in BOOLEAN :
        /\ cli_available' = cli
        /\ api_available' = api
        /\ max_retries' = retries
        /\ IF ~(cli \/ api)
           THEN /\ gpc' = "unavailable"
                /\ UNCHANGED <<cache_enabled, cache_dir_exists, cache_files, evict_error, cpc>>
           ELSE /\ gpc' = "idle"
                /\ CacheManagerInit(enabled)
                /\ cpc' = "ready"
    /\ UNCHANGED <<disk0, last_op, stored, n_ops>>
    /\ UNCHANGED <<g_prompt, g_model, attempt, log, delays, g_result, g_error,
                   served, prior, files_at_call, n_calls>>

\* generate(prompt, model_name), up to the first transport attempt: the cache
\* lookup, and the loop header of: for attempt in range(self.max_retries).
Generate ==
    /\ gpc \in {"idle", "returned", "raised"}
    /\ n_calls < MaxCalls
    /\ \E prompt \in Prompts, model_name \in Models \cup {None} :
        LET model == EffectiveModel(model_name)
            cached_response == get_from_cache(cache_enabled, cache_files, prompt, model)
        IN  /\ g_prompt' = prompt
            /\ g_model' = model
            /\ prior' = served[<<model, prompt>>]
            /\ IF Truthy(cached_response)
               THEN /\ gpc' = "returned"
                    /\ g_result' = cached_response
               ELSE IF 0 < max_retries
               THEN /\ gpc' = "attempt"
                    /\ g_result' = None
               ELSE /\ gpc' = "returned"
                    /\ g_result' = None
    /\ attempt' = 0
    /\ log' = <<>>
    /\ delays' = <<>>
    /\ g_error' = None
    /\ files_at_call' = cache_files
    /\ n_calls' = n_calls + 1
    /\ UNCHANGED <<max_retries, api_available, cli_available, served>>
    /\ UNCHANGED cacheVars

\* One loop iteration whose transport call returns: save_to_cache, return.
TransportReturns ==
    /\ gpc = "attempt"
    /\ \E response \in Texts :
        /\ log' = Append(log, [ok |-> TRUE, via |-> Transport, value |-> response])
        /\ cache_files' = save_to_cache(cache_enabled, cache_files, g_prompt, g_model, response)
        /\ g_result' = response
        /\ served' = [served EXCEPT ![<<g_model, g_prompt>>] = response]
    /\ gpc' = "returned"
    /\ UNCHANGED <<max_retries, api_available, cli_available, g_prompt, g_model,
                   attempt, delays, g_error, prior, files_at_call, n_calls>>
    /\ UNCHANGED <<cache_enabled, cache_dir_exists, disk0, evict_error, cpc, last_op, stored, n_ops>>

\* One loop iteration whose transport call raises: re-raise after the last
\* attempt, otherwise sleep and go round again.
TransportRaises ==
    /\ gpc = "attempt"
    /\ \E e \in Errors :
        /\ log' = Append(log, [ok |-> FALSE, via |-> Transport, value |-> e])
        /\ IF IsLastAttempt(attempt, max_retries)
           THEN /\ gpc' = "raised"
                /\ g_error' = e
                /\ UNCHANGED <<attempt, delays>>
           ELSE /\ delays' = Append(delays, RetryDelay)
                /\ attempt' = attempt + 1
                /\ gpc' = IF attempt + 1 < max_retries THEN "attempt" ELSE "returned"
                /\ UNCHANGED g_error
    /\ UNCHANGED <<max_retries, api_available, cli_available, g_prompt, g_model,
                   g_result, served, prior, files_at_call, n_calls>>
    /\ UNCHANGED cacheVars

\* -------------------------------------------------- CursorProjectGenerator
\* A path is a sequence of components; a first component "/" makes it absolute.
\* A location is a path from the root of the file system, without "..".

\* self.base_path, made by __init__ before any project is created.
BasePath == <<"projects">>
\* project_path = base_path / f"{project_name}_{timestamp}"
ProjectPath == BasePath \o <<"todo_app_1">>
\* recovery_file = base_path / f"recovery_{project_id}.json"
RecoveryFile == BasePath \o <<"recovery_1.json">>

\* pathlib's root / p: an absolute right operand replaces the left one.
Join(root, p) == IF p # <<>> /\ Head(p) = "/" THEN Tail(p) ELSE root \o p

\* The location the operating system reaches for a path: ".." steps up.
RECURSIVE Normalize(_, _)
Normalize(acc, rest) ==
    IF rest = <<>> THEN acc
    ELSE IF Head(rest) = ".."
         THEN Normalize(IF acc = <<>> THEN acc ELSE SubSeq(acc, 1, Len(acc) - 1), Tail(rest))
         ELSE Normalize(Append(acc, Head(rest)), Tail(rest))

Locate(root, p) == Normalize(<<>>, Join(root, p))

Parent(loc) == IF loc = <<>> THEN loc ELSE SubSeq(loc, 1, Len(loc) - 1)
Prefixes(loc) == { SubSeq(loc, 1, k) : k \in 0..Len(loc) }
Inside(root, loc) == Len(loc) > Len(root) /\ SubSeq(loc, 1, Len(root)) = root

\* The file system: the directories, and the content of every regular file.
EmptyDisk == [dirs |-> {<<>>}, files |-> <<>>]

Exists(disk, loc) == loc \in disk.dirs \/ loc \in DOMAIN disk.files

\* Path.mkdir(parents=True, exist_ok=True) raises when the path or one of its
\* ancestors is a regular file.
MkdirRaises(disk, loc) == \E q \in Prefixes(loc) : q \in DOMAIN disk.files
Mkdir(disk, loc) == [disk EXCEPT !.dirs = @ \cup Prefixes(loc)]

\* open(path, "w") raises on a directory and when the parent is no directory.
OpenRaises(disk, loc) == loc \in disk.dirs \/ Parent(loc) \notin disk.dirs

\* The write, mutated: a file that is already there keeps its content.
WriteFileOnce(disk, loc, content) ==
    IF loc \in DOMAIN disk.files THEN disk
    ELSE [disk EXCEPT !.files = [l \in DOMAIN disk.files \cup {loc} |->
                                    IF l = loc THEN content ELSE disk.files[l]]]

\* with open(path, "w") as f: f.write(content): the file holds content alone.
WriteFile(disk, loc, content) ==
    [disk EXCEPT !.files = [l \in DOMAIN disk.files \cup {loc} |->
                               IF l = loc THEN content ELSE disk.files[l]]]

\* A FileSpec of the structure; a key the model left out is None.
FileSpec(path, description) == [path |-> path, description |-> description]

F_main == FileSpec(<<"main.py">>, <<"entry">>)
F_app == FileSpec(<<"src", "app.py">>, <<"app">>)
F_util == FileSpec(<<"src", "util.py">>, <<"util">>)
F_test == FileSpec(<<"tests", "test_app.py">>, <<"tests">>)
F_cfg == FileSpec(<<"config.json">>, <<"settings">>)
F_src == FileSpec(<<"src">>, <<"sources">>)
F_nodesc == FileSpec(<<"docs", "notes.md">>, None)
F_nopath == FileSpec(None, <<"something">>)
F_abs == FileSpec(<<"/", "tmp", "x.py">>, <<"absolute">>)
F_up == FileSpec(<<"..", "shared.py">>, <<"upwards">>)
F_req == FileSpec(<<"requirements.txt">>, <<"pinned dependencies">>)
F_again == FileSpec(<<"main.py">>, <<"entry, again">>)

Structure(folders, files, dependencies) ==
    [name |-> <<"todo_app">>, folders |-> folders, files |-> files,
     dependencies |-> dependencies]

\* No structure: generate_project_structure has not returned one.
NoStructure == [name |-> None, folders |-> <<>>, files |-> <<>>, dependencies |-> <<>>]

\* The structures the model's JSON can describe, as explored here.
Structures == {
    Structure(<< <<"src">>, <<"tests">> >>, <<F_main, F_app, F_util, F_test, F_cfg>>, <<"click">>),
    Structure(<< <<"src">> >>, <<F_main, F_app, F_nodesc, F_test, F_cfg>>, <<>>),
    Structure(<<>>, <<F_src, F_app, F_main>>, <<>>),
    Structure(<< <<"..", "elsewhere">> >>, <<F_abs, F_main, F_up>>, <<>>),
    Structure(<<>>, <<F_req, F_main, F_app>>, <<"click">>),
    Structure(<<>>, <<F_main, F_again, F_app>>, <<>>),
    Structure(<<>>, <<F_main, F_nopath>>, <<>>),
    Structure(<< <<"src">> >>, <<>>, <<>>) }

\* What the gateway and the JSON extractor make of the structure prompt.
StructureResponses ==
    { [kind |-> k, structure |-> NoStructure] :
        k \in {"gateway_error", "no_json", "bad_json"} }
    \cup { [kind |-> "ok", structure |-> st] : st \in Structures }

\* Largest config["max_workers"] explored (1 .. MaxWorkers).
MaxWorkers == 3

VARIABLES
    ppc,               \* "new" | "start" | "structured" | "pool" | "done" | "failed"
    max_workers,       \* config["max_workers"]
    project_structure, \* the structure generate_project_structure returned
    disk,              \* the file system
    futures,           \* per submitted task: [state, value]
    p_result,          \* what create_project returned
    structure_failed,  \* history: generate_project_structure raised
    logged,            \* history: the tasks whose result handling logged an error
    out_of_order       \* history: a result was handled before that of an earlier task

projectVars == <<ppc, max_workers, project_structure, disk, futures, p_result,
                 structure_failed, logged, out_of_order>>

InitProject ==
    /\ ppc = "new"
    /\ max_workers = 0
    /\ project_structure = NoStructure
    /\ disk = EmptyDisk
    /\ futures = <<>>
    /\ p_result = None
    /\ structure_failed = FALSE
    /\ logged = {}
    /\ out_of_order = FALSE

\* CursorProjectGenerator.__init__: the configuration, and base_path is made.
NewCursorProjectGenerator ==
    /\ ppc = "new"
    /\ \E workers \in 1..MaxWorkers : max_workers' = workers
    /\ disk' = Mkdir(disk, BasePath)
    /\ ppc' = "start"
    /\ UNCHANGED <<project_structure, futures, p_result, structure_failed, logged,
                   out_of_order>>

\* generate_project_structure, mutated: unrecoverable JSON yields an empty structure.
StructureOrRaiseLenient(response) ==
    IF response.kind = "ok" THEN response.structure
    ELSE IF response.kind = "bad_json" THEN Structure(<<>>, <<>>, <<>>)
    ELSE NoStructure

\* generate_project_structure: the parsed structure, or NoStructure when
\* generate, extract_json or json.loads raised (the exception is re-raised).
StructureOrRaise(response) ==
    IF response.kind = "ok" THEN response.structure ELSE NoStructure

\* create_project, step 1: the structure, then the recovery file.  An exception
\* of generate_project_structure reaches the outer handler: return None.
GenerateProjectStructure ==
    /\ ppc = "start"
    /\ \E response \in StructureResponses :
        LET st == StructureOrRaise(response)
        IN  /\ structure_failed' = (response.kind # "ok")
            /\ IF st = NoStructure
               THEN /\ ppc' = "failed"
                    /\ UNCHANGED <<project_structure, disk>>
               ELSE /\ ppc' = "structured"
                    /\ project_structure' = st
                    /\ disk' = WriteFile(disk, RecoveryFile, <<"recovery">>)
    /\ UNCHANGED <<max_workers, futures, p_result, logged, out_of_order>>

\* The directories of a list of folders, made one after the other; the first
\* mkdir that raises ends the loop.
RECURSIVE MakeFolders(_, _, _)
MakeFolders(d, root, folders) ==
    IF folders = <<>> THEN [disk |-> d, raised |-> FALSE]
    ELSE LET loc == Locate(root, Head(folders))
         IN  IF MkdirRaises(d, loc) THEN [disk |-> d, raised |-> TRUE]
             ELSE MakeFolders(Mkdir(d, loc), root, Tail(folders))

Pending == [state |-> "pending", value |-> None]

\* create_project, steps 2 to 4: the project directory, the declared folders,
\* and one future per declared file submitted to the executor.
CreateFolders ==
    /\ ppc = "structured"
    /\ LET made == MakeFolders(Mkdir(disk, ProjectPath), ProjectPath,
                               project_structure.folders)
       IN  /\ disk' = made.disk
           /\ IF made.raised
              THEN /\ ppc' = "failed"
                   /\ UNCHANGED futures
              ELSE /\ ppc' = "pool"
                   /\ futures' = [i \in 1..Len(project_structure.files) |-> Pending]
    /\ UNCHANGED <<max_workers, project_structure, p_result, structure_failed, logged,
                   out_of_order>>

Tasks == DOMAIN futures
Completed == { i \in Tasks : futures[i].state # "pending" }

\* The executor runs the submitted tasks in submission order on max_workers
\* threads: a task has started once fewer than max_workers earlier tasks are
\* still running.
Started(i) == i <= Cardinality(Completed) + max_workers

\* The content generate_file_content returns for the i-th declared file.
GeneratedContent(i) == <<"generated", i>>
\* "# Erreur lors de la génération du contenu ..."
ErrorMarker(i) == <<"# Erreur", i>>

\* generate_file_content(file_info, project_structure) ends on a worker: it
\* raises KeyError for a FileSpec without path or description (before its try
\* block), returns the cleaned content, or the error marker when generate raised.
generate_file_content(i, file_info, gateway_ok) ==
    IF file_info.path = None \/ file_info.description = None
    THEN [state |-> "raised", value |-> <<"KeyError">>]
    ELSE IF gateway_ok
    THEN [state |-> "returned", value |-> GeneratedContent(i)]
    ELSE [state |-> "returned", value |-> ErrorMarker(i)]

TaskCompletes ==
    /\ ppc = "pool"
    /\ \E i \in Tasks, gateway_ok \in BOOLEAN :
        /\ futures[i].state = "pending"
        /\ Started(i)
        /\ futures' = [futures EXCEPT ![i] =
               generate_file_content(i, project_structure.files[i], gateway_ok)]
    /\ UNCHANGED <<ppc, max_workers, project_structure, disk, p_result,
                   structure_failed, logged, out_of_order>>

\* future_to_file[future], mutated: the k-th result handled goes to the k-th file.
FutureToFileByOrder(i, handled) == handled + 1

\* future_to_file[future]: the index of the FileSpec the future was submitted for.
FutureToFile(i, handled) == i

Handled == { i \in Tasks : futures[i].state = "handled" }

\* One iteration of the as_completed loop for the finished future i: mkdir of
\* the parent, future.result(), write; an exception of these three is logged.
\* file_info["path"] is read before the try block.
ProcessResult ==
    /\ ppc = "pool"
    /\ \E i \in Tasks :
        /\ futures[i].state \in {"returned", "raised"}
        /\ LET file_info == project_structure.files[FutureToFile(i, Cardinality(Handled))]
           IN  IF file_info.path = None
               THEN /\ ppc' = "failed"
                    /\ UNCHANGED <<disk, logged>>
               ELSE LET file_path == Locate(ProjectPath, file_info.path)
                        parent_raises == MkdirRaises(disk, Parent(file_path))
                        d1 == IF parent_raises THEN disk ELSE Mkdir(disk, Parent(file_path))
                        raises == \/ parent_raises
                                  \/ futures[i].state = "raised"
                                  \/ OpenRaises(d1, file_path)
                    IN  /\ disk' = IF raises THEN d1
                                   ELSE WriteFile(d1, file_path, futures[i].value)
                        /\ logged' = IF raises THEN logged \cup {i} ELSE logged
                        /\ UNCHANGED ppc
        /\ futures' = [futures EXCEPT ![i].state = "handled"]
        /\ out_of_order' = (out_of_order \/ \E j \in 1..(i - 1) : futures[j].state # "handled")
    /\ UNCHANGED <<max_workers, project_structure, p_result, structure_failed>>

\* open(path, "w") and write, inside create_project's outer try.
TryWrite(d, loc, content) ==
    IF OpenRaises(d.disk, loc) THEN [d EXCEPT !.raised = TRUE]
    ELSE [d EXCEPT !.disk = WriteFile(d.disk, loc, content)]

\* create_project, steps 5 to 10, after the executor has shut down: README.md
\* unless it exists, requirements.txt when dependencies are declared, the git
\* files and the virtual environment (best effort, their exceptions are
\* swallowed), project_structure.json, and the return of project_path.
Finish ==
    /\ ppc = "pool"
    /\ \A i \in Tasks : futures[i].state = "handled"
    /\ \E git_ok \in BOOLEAN, venv_ok \in BOOLEAN :
        LET root == ProjectPath
            s0 == [disk |-> disk, raised |-> FALSE]
            s5 == IF Exists(s0.disk, root \o <<"README.md">>) THEN s0
                  ELSE TryWrite(s0, root \o <<"README.md">>, <<"readme">>)
            s6 == IF s5.raised \/ project_structure.dependencies = <<>> THEN s5
                  ELSE TryWrite(s5, root \o <<"requirements.txt">>,
                                <<"dependencies">>)
            s7 == IF s6.raised \/ ~git_ok
                     \/ OpenRaises(s6.disk, root \o <<".gitignore">>) THEN s6
                  ELSE [s6 EXCEPT !.disk =
                           WriteFile(s6.disk, root \o <<".gitignore">>, <<"gitignore">>)]
            s8 == IF s7.raised \/ ~venv_ok
                     \/ MkdirRaises(s7.disk, root \o <<"venv">>) THEN s7
                  ELSE [s7 EXCEPT !.disk = Mkdir(s7.disk, root \o <<"venv">>)]
            s9 == IF s8.raised THEN s8
                  ELSE TryWrite(s8, root \o <<"project_structure.json">>,
                                <<"structure">>)
        IN  /\ disk' = s9.disk
            /\ ppc' = IF s9.raised THEN "failed" ELSE "done"
            /\ p_result' = IF s9.raised THEN None ELSE ProjectPath
    /\ UNCHANGED <<max_workers, project_structure, futures, structure_failed, logged,
                   out_of_order>>

\* ================================================================== texts
\* Pure text functions of CursorProjectGenerator.  A text is a sequence of
\* characters; "LF" is the line feed, "BT" the backtick.
LF == "LF"
\* The characters str.strip() removes that occur in the texts explored.
Whitespace == {" ", LF}
\* The characters of [a-zA-Z] that occur in the texts explored.
Letters == {"x", "N", "o", "t", "e", "E", "p", "l", "i", "c", "a", "n"}
\* The markdown code fence.
Fence == <<"BT", "BT", "BT">>
\* Prefixes of the lines skipped at the head of a generated content.
CommentPrefixes ==
    { <<"#">>, <<"/", "/">>, <<"/", "*">>, <<"*">>, <<"<", "!", "-", "-">> }
\* Prefixes of the lines skipped at the tail of a generated content.
NotePrefixes ==
    { <<"E", "x", "p", "l", "i", "c", "a", "t", "i", "o", "n", ":">>,
      <<"N", "o", "t", "e", ":">> }

\* str.startswith
StartsWith(s, p) == Len(s) >= Len(p) /\ SubSeq(s, 1, Len(p)) = p
StartsWithAny(s, ps) == \E p \in ps : StartsWith(s, p)

\* The text from position i to the end.
From(s, i) == SubSeq(s, i, Len(s))

RECURSIVE LStrip(_)
LStrip(s) == IF s # <<>> /\ Head(s) \in Whitespace THEN LStrip(Tail(s)) ELSE s
RECURSIVE RStrip(_)
RStrip(s) ==
    IF s # <<>> /\ s[Len(s)] \in Whitespace THEN RStrip(SubSeq(s, 1, Len(s) - 1)) ELSE s
\* str.strip()
Strip(s) == RStrip(LStrip(s))

\* str.split(line feed): the lines of a text, one more than its line feeds.
RECURSIVE SplitLines(_)
SplitLines(s) ==
    IF \A i \in 1..Len(s) : s[i] # LF THEN <<s>>
    ELSE LET i == CHOOSE k \in 1..Len(s) :
                     s[k] = LF /\ \A j \in 1..(k - 1) : s[j] # LF
         IN  <<SubSeq(s, 1, i - 1)>> \o SplitLines(From(s, i + 1))

\* str.join of the line feed
RECURSIVE JoinLines(_)
JoinLines(lines) ==
    IF lines = <<>> THEN <<>>
    ELSE IF Len(lines) = 1 THEN lines[1]
    ELSE lines[1] \o <<LF>> \o JoinLines(Tail(lines))

\* Number of letters at the head of s: the greedy match of [a-zA-Z]*.
RECURSIVE LetterRun(_)
LetterRun(s) == IF s # <<>> /\ Head(s) \in Letters THEN 1 + LetterRun(Tail(s)) ELSE 0

\* re.sub(fence [a-zA-Z]* line-feed, "", content): one pass from left to right,
\* every fence followed by letters and a line feed is dropped.
RECURSIVE RemoveOpeningFences(_)
RemoveOpeningFences(s) ==
    IF s = <<>> THEN <<>>
    ELSE IF StartsWith(s, Fence)
            /\ LET k == LetterRun(From(s, 4))
               IN  Len(s) >= 4 + k /\ s[4 + k] = LF
         THEN RemoveOpeningFences(From(s, 5 + LetterRun(From(s, 4))))
         ELSE <<Head(s)>> \o RemoveOpeningFences(Tail(s))

\* re.sub(fence line-feed? $, "", content): $ matches at the end of the text and
\* before a line feed that ends the text.
RemoveClosingFence(s) ==
    LET n == Len(s)
    IN  IF n >= 3 /\ From(s, n - 2) = Fence THEN SubSeq(s, 1, n - 3)
        ELSE IF n >= 4 /\ From(s, n - 3) = Fence \o <<LF>> THEN SubSeq(s, 1, n - 4)
        ELSE IF n >= 5 /\ From(s, n - 4) = Fence \o <<LF, LF>>
             THEN SubSeq(s, 1, n - 5) \o <<LF>>
        ELSE s

\* line.strip() is empty
IsBlank(line) == Strip(line) = <<>>

\* clean_code_content: drop the fences, the comment lines before the first
\* line of code and the note lines after the last one.  start_idx and end_idx
\* are the code's indices, counted from 1 here.
clean_code_content(content) ==
    LET lines == SplitLines(RemoveClosingFence(RemoveOpeningFences(content)))
        starts == {i \in 1..Len(lines) :
                      ~IsBlank(lines[i]) /\ ~StartsWithAny(lines[i], CommentPrefixes)}
        ends == {i \in 1..Len(lines) :
                    ~IsBlank(lines[i]) /\ ~StartsWithAny(lines[i], NotePrefixes)}
        start_idx == IF starts = {} THEN 1
                     ELSE CHOOSE i \in starts : \A j \in starts : i <= j
        end_idx == IF ends = {} THEN Len(lines)
                   ELSE CHOOSE i \in ends : \A j \in ends : j <= i
    IN  Strip(JoinLines(SubSeq(lines, start_idx, end_idx)))

\* Largest number of fragments a generated content is made of.
MaxFragments == 5
\* The pieces generated contents are made of: a fence, a language tag or a
\* word of code, a line feed, an indentation, a comment sign, a note.
Fragments ==
    { Fence, <<"x">>, <<LF>>, <<" ">>, <<"#">>, <<"N", "o", "t", "e", ":">> }

\* The concatenations of at most n fragments.
RECURSIVE Concatenations(_, _)
Concatenations(frags, n) ==
    IF n = 0 THEN { <<>> }
    ELSE LET shorter == Concatenations(frags, n - 1)
         IN  shorter \cup { f \o s : f \in frags, s \in shorter }

VARIABLES
    content,    \* the text handed to clean_code_content
    cleaned     \* the results of the successive calls, each on the previous result

textVars == <<content, cleaned>>

InitText ==
    /\ content \in Concatenations(Fragments, MaxFragments)
    /\ cleaned = <<>>

\* No text is being cleaned.
IdleText ==
    /\ content = <<>>
    /\ cleaned = <<>>

\* One call of clean_code_content, on the content or on the previous result.
CleanCodeContent ==
    /\ Len(cleaned) < 2
    /\ cleaned' = Append(cleaned,
                         clean_code_content(IF cleaned = <<>> THEN content
                                            ELSE cleaned[Len(cleaned)]))
    /\ UNCHANGED content

\* ------------------------------------------------------------ extract_json
\* "DQ" is the double quote, "SQ" the single quote.
DQ == "DQ"
SQ == "SQ"
\* The digits that occur in the texts explored.
Digits == {"1"}
\* The characters that close a value in the last repair pattern: [,}\]].
Closers == {",", "}", "]"}

\* The character at position i, "EOF" past the end.
At(s, i) == IF i \in 1..Len(s) THEN s[i] ELSE "EOF"

\* The first position at or after i that holds no white space.
RECURSIVE SkipWs(_, _)
SkipWs(s, i) == IF At(s, i) \in Whitespace THEN SkipWs(s, i + 1) ELSE i

\* The first position at or after i that holds c, 0 if there is none.
RECURSIVE Find(_, _, _)
Find(s, c, i) ==
    IF i > Len(s) THEN 0 ELSE IF s[i] = c THEN i ELSE Find(s, c, i + 1)

\* The first position at or after i that holds a character of cs, 0 if none.
RECURSIVE FindAny(_, _, _)
FindAny(s, cs, i) ==
    IF i > Len(s) THEN 0 ELSE IF s[i] \in cs THEN i ELSE FindAny(s, cs, i + 1)

\* The last position that holds c, 0 if there is none.
RECURSIVE FindLast(_, _, _)
FindLast(s, c, i) ==
    IF i < 1 THEN 0 ELSE IF s[i] = c THEN i ELSE FindLast(s, c, i - 1)

\* Number of digits from position i on.
RECURSIVE DigitRun(_, _)
DigitRun(s, i) == IF At(s, i) \in Digits THEN 1 + DigitRun(s, i + 1) ELSE 0

\* json.loads, by recursive descent.  Each parser is given a text and the
\* position where the value starts; it gives the position after the value
\* and the value as a text without insignificant white space, or
\* next = 0 where the decoder raises JSONDecodeError.
Failed == [next |-> 0, value |-> <<>>]

\* A string: no escape occurs in the texts explored; a line feed inside a
\* string is a control character, which the decoder rejects.
ParseString(s, i) ==
    LET j == Find(s, DQ, i + 1)
    IN  IF At(s, i) # DQ \/ j = 0 THEN Failed
        ELSE IF \E k \in (i + 1)..(j - 1) : s[k] = LF THEN Failed
        ELSE [next |-> j + 1, value |-> SubSeq(s, i, j)]

\* A number: a run of digits (none of the texts explored holds "0", "-",
\* "." or an exponent).
ParseNumber(s, i) ==
    LET k == DigitRun(s, i)
    IN  IF k = 0 THEN Failed ELSE [next |-> i + k, value |-> SubSeq(s, i, i + k - 1)]

RECURSIVE ParseValue(_, _)
RECURSIVE ParseMembers(_, _)
RECURSIVE ParseElements(_, _)

\* The members of an object from the key at position i to the closing brace.
ParseMembers(s, i) ==
    LET key == ParseString(s, i)
        colon == SkipWs(s, key.next)
        val == ParseValue(s, SkipWs(s, colon + 1))
        after == SkipWs(s, val.next)
    IN  IF key.next = 0 \/ At(s, colon) # ":" THEN Failed
        ELSE IF val.next = 0 THEN Failed
        ELSE IF At(s, after) = "}"
             THEN [next |-> after + 1, value |-> key.value \o <<":">> \o val.value \o <<"}">>]
        ELSE IF At(s, after) = ","
             THEN LET rest == ParseMembers(s, SkipWs(s, after + 1))
                  IN  IF rest.next = 0 THEN Failed
                      ELSE [next |-> rest.next,
                            value |-> key.value \o <<":">> \o val.value \o <<",">>
                                      \o rest.value]
        ELSE Failed

\* The elements of an array from the value at position i to the closing bracket.
ParseElements(s, i) ==
    LET val == ParseValue(s, i)
        after == SkipWs(s, val.next)
    IN  IF val.next = 0 THEN Failed
        ELSE IF At(s, after) = "]"
             THEN [next |-> after + 1, value |-> val.value \o <<"]">>]
        ELSE IF At(s, after) = ","
             THEN LET rest == ParseElements(s, SkipWs(s, after + 1))
                  IN  IF rest.next = 0 THEN Failed
                      ELSE [next |-> rest.next, value |-> val.value \o <<",">> \o rest.value]
        ELSE Failed

ParseValue(s, i) ==
    IF At(s, i) = "{"
    THEN LET j == SkipWs(s, i + 1)
         IN  IF At(s, j) = "}" THEN [next |-> j + 1, value |-> <<"{", "}">>]
             ELSE LET members == ParseMembers(s, j)
                  IN  IF members.next = 0 THEN Failed
                      ELSE [next |-> members.next, value |-> <<"{">> \o members.value]
    ELSE IF At(s, i) = "["
    THEN LET j == SkipWs(s, i + 1)
         IN  IF At(s, j) = "]" THEN [next |-> j + 1, value |-> <<"[", "]">>]
             ELSE LET elements == ParseElements(s, j)
                  IN  IF elements.next = 0 THEN Failed
                      ELSE [next |-> elements.next, value |-> <<"[">> \o elements.value]
    ELSE IF At(s, i) = DQ THEN ParseString(s, i)
    ELSE ParseNumber(s, i)

\* json.loads(s): the value, or Failed when the decoder raises (no value,
\* or extra data after the value).
json_loads(s) ==
    LET v == ParseValue(s, SkipWs(s, 1))
    IN  IF v.next # 0 /\ SkipWs(s, v.next) = Len(s) + 1 THEN v ELSE Failed

\* json.loads(s) does not raise.
Parses(s) == json_loads(s).next # 0

\* The message of the JSONDecodeError raised on s.
DecodeError(s) == <<"JSONDecodeError">> \o s

\* Number of white-space characters from position i on: the greedy \s*.
RECURSIVE WsRun(_, _)
WsRun(s, i) == IF At(s, i) \in Whitespace THEN 1 + WsRun(s, i + 1) ELSE 0

\* re.sub(r"'([^']*)':", r'"\1":', s): a single-quoted key gets double quotes.
RECURSIVE RequoteKeys(_)
RequoteKeys(s) ==
    IF s = <<>> THEN <<>>
    ELSE LET j == Find(s, SQ, 2)
         IN  IF Head(s) = SQ /\ j # 0 /\ At(s, j + 1) = ":"
             THEN <<DQ>> \o SubSeq(s, 2, j - 1) \o <<DQ, ":">> \o RequoteKeys(From(s, j + 2))
             ELSE <<Head(s)>> \o RequoteKeys(Tail(s))

\* re.sub(r":\s*\'([^\']*)\'", r': "\1"', s): a single-quoted value after a
\* colon gets double quotes, the white space before it becomes one space.
RECURSIVE RequoteValues(_)
RequoteValues(s) ==
    IF s = <<>> THEN <<>>
    ELSE LET q == 2 + WsRun(s, 2)
             j == Find(s, SQ, q + 1)
         IN  IF Head(s) = ":" /\ At(s, q) = SQ /\ j # 0
             THEN <<":", " ", DQ>> \o SubSeq(s, q + 1, j - 1) \o <<DQ>>
                  \o RequoteValues(From(s, j + 1))
             ELSE <<Head(s)>> \o RequoteValues(Tail(s))

\* re.sub(r",\s*}", "}", s) and re.sub(r",\s*\]", "]", s): a comma before the
\* closing character is dropped.
RECURSIVE DropTrailingCommas(_, _)
DropTrailingCommas(s, closer) ==
    IF s = <<>> THEN <<>>
    ELSE LET q == 2 + WsRun(s, 2)
         IN  IF Head(s) = "," /\ At(s, q) = closer
             THEN <<closer>> \o DropTrailingCommas(From(s, q + 1), closer)
             ELSE <<Head(s)>> \o DropTrailingCommas(Tail(s), closer)

\* re.sub(r':\s*([^"][^,}\]]*)\s*([,}\]])', r': "\1"\2', s): after a colon,
\* what does not start with a double quote is quoted up to the next closer.
\* \s* is greedy and gives one character back when the first character after
\* the white space cannot start the group (a double quote, or no closer
\* follows it); start is the position where the group starts.
RECURSIVE QuoteBareValues(_)
QuoteBareValues(s) ==
    IF s = <<>> THEN <<>>
    ELSE LET w == WsRun(s, 2)
             greedy == 2 + w
             start == IF greedy <= Len(s) /\ s[greedy] # DQ
                         /\ FindAny(s, Closers, greedy + 1) # 0
                      THEN greedy
                      ELSE IF w >= 1 /\ FindAny(s, Closers, greedy) # 0
                      THEN greedy - 1
                      ELSE 0
             close == FindAny(s, Closers, start + 1)
         IN  IF Head(s) = ":" /\ start # 0
             THEN <<":", " ", DQ>> \o SubSeq(s, start, close - 1) \o <<DQ, s[close]>>
                  \o QuoteBareValues(From(s, close + 1))
             ELSE <<Head(s)>> \o QuoteBareValues(Tail(s))

\* The repairs of extract_json, in the order of the code.
Repair(json_str) ==
    QuoteBareValues(
        DropTrailingCommas(
            DropTrailingCommas(RequoteValues(RequoteKeys(json_str)), "}"), "]"))

\* re.search(r"\{.*\}", text, re.DOTALL): from the first opening brace to the
\* last closing brace after it; <<>> when there is no match.
JsonSpan(text) ==
    LET i == Find(text, "{", 1)
        j == FindLast(text, "}", Len(text))
    IN  IF i # 0 /\ j > i THEN SubSeq(text, i, j) ELSE <<>>

\* The mutant returns the repaired text without parsing it again.
extract_json_unchecked(text) ==
    LET json_str == JsonSpan(text)
    IN  IF json_str = <<>>
        THEN [kind |-> "ValueError", text |-> <<"Aucun JSON">>]
        ELSE IF Parses(json_str) THEN [kind |-> "returned", text |-> json_str]
        ELSE [kind |-> "returned", text |-> Repair(json_str)]

\* extract_json: what the call returns or the ValueError it raises.  The
\* first error is "Aucun JSON valide trouve dans la reponse", the second
\* carries the decoder's message on the repaired text.
extract_json(text) ==
    LET json_str == JsonSpan(text)
        corrected == Repair(json_str)
    IN  IF json_str = <<>>
        THEN [kind |-> "ValueError", text |-> <<"Aucun JSON">>]
        ELSE IF Parses(json_str) THEN [kind |-> "returned", text |-> json_str]
        ELSE IF Parses(corrected) THEN [kind |-> "returned", text |-> corrected]
        ELSE [kind |-> "ValueError",
              text |-> <<"Impossible de parser">> \o DecodeError(corrected)]

\* Largest number of fragments a response of the model is made of.
MaxJsonFragments == 5
\* The pieces responses are made of.
JsonFragments ==
    { <<"{">>, <<"}">>, <<DQ, "a", DQ>>, <<SQ, "a", SQ>>, <<":">>, <<",">>,
      <<" ">>, <<"1">>, <<"x">> }

\* extract_json has not been called.
NotExtracted == [kind |-> "none", text |-> <<>>]

VARIABLES
    response,   \* the text handed to extract_json
    extracted   \* what extract_json returned or raised

jsonVars == <<response, extracted>>

InitJson ==
    /\ response \in Concatenations(JsonFragments, MaxJsonFragments)
    /\ extracted = NotExtracted

\* No response is being handled.
IdleJson ==
    /\ response = <<>>
    /\ extracted = NotExtracted

\* One call of extract_json.
ExtractJson ==
    /\ extracted = NotExtracted
    /\ extracted' = extract_json(response)
    /\ UNCHANGED response

\* ------------------------------------- generate_project_structure: defaults
\* The fields of a project structure, as the prompt of
\* generate_project_structure asks for them.
Fields ==
    {"name", "description", "folders", "files", "dependencies", "dev_dependencies",
     "commands"}
\* required_keys, the fields generate_project_structure completes.
required_keys == {"name", "description", "files", "folders", "dependencies"}
\* The keys that get [] as default; the others get "".
ListKeys == {"files", "folders", "dependencies", "dev_dependencies", "commands"}

\* JSON values: a list, a string or null, with what it holds.
EmptyList == [type |-> "list", items |-> <<>>]
EmptyString == [type |-> "str", items |-> <<>>]
\* What the model supplies for a field: a value of the expected type that
\* holds something, or null.
Null == [type |-> "null", items |-> <<>>]
Supplied(key) == [type |-> IF key \in ListKeys THEN "list" ELSE "str", items |-> <<key>>]

\* The objects json.loads may return: any fields, any of them null.
ParsedObjects ==
    UNION { { [key \in keys |-> IF key \in nulls THEN Null ELSE Supplied(key)] :
                nulls \in SUBSET keys } :
            keys \in SUBSET Fields }

\* The loop over required_keys: a missing key gets its default, a key that
\* is present is left alone.
CompleteStructure(obj) ==
    [key \in (DOMAIN obj) \cup required_keys |->
        IF key \in DOMAIN obj THEN obj[key]
        ELSE IF key \in ListKeys THEN EmptyList ELSE EmptyString]

VARIABLES
    parsed_object,      \* structure = json.loads(json_str)
    completed,          \* generate_project_structure has returned
    returned_structure  \* the structure it returned

structureVars == <<parsed_object, completed, returned_structure>>

InitStructure ==
    /\ parsed_object \in ParsedObjects
    /\ completed = FALSE
    /\ returned_structure = parsed_object

\* generate_project_structure is not running.
IdleStructure ==
    /\ parsed_object = [key \in {} |-> EmptyString]
    /\ completed = FALSE
    /\ returned_structure = parsed_object

\* generate_project_structure from the parsed object to its return.
ReturnStructure ==
    /\ ~completed
    /\ returned_structure' = CompleteStructure(parsed_object)
    /\ completed' = TRUE
    /\ UNCHANGED parsed_object

\* ================================================================ validator
\* validate_and_fix_project and its four checks.  Module names and paths are
\* texts; a Python file is what the checks read of it: the targets of its
\* import statements, in order, and whether ast.parse accepts it.

\* The modules _validate_imports never reports (line 1090).
IgnoredImports ==
    { <<"o", "s">>,
      <<"s", "y", "s">>,
      <<"j", "s", "o", "n">>,
      <<"t", "i", "m", "e">>,
      <<"d", "a", "t", "e", "t", "i", "m", "e">>,
      <<"f", "l", "a", "s", "k">>,
      <<"d", "j", "a", "n", "g", "o">>,
      <<"n", "u", "m", "p", "y">>,
      <<"p", "a", "n", "d", "a", "s">> }
\* std_libs of _validate_dependencies (lines 1218-1222).
std_libs ==
    { <<"o", "s">>,
      <<"s", "y", "s">>,
      <<"t", "i", "m", "e">>,
      <<"d", "a", "t", "e", "t", "i", "m", "e">>,
      <<"j", "s", "o", "n">>,
      <<"r", "e">>,
      <<"m", "a", "t", "h">>,
      <<"r", "a", "n", "d", "o", "m">>,
      <<"c", "o", "l", "l", "e", "c", "t", "i", "o", "n", "s">>,
      <<"i", "t", "e", "r", "t", "o", "o", "l", "s">>,
      <<"f", "u", "n", "c", "t", "o", "o", "l", "s">>,
      <<"t", "y", "p", "i", "n", "g">>,
      <<"p", "a", "t", "h", "l", "i", "b">>,
      <<"s", "h", "u", "t", "i", "l">>,
      <<"s", "u", "b", "p", "r", "o", "c", "e", "s", "s">>,
      <<"a", "r", "g", "p", "a", "r", "s", "e">>,
      <<"l", "o", "g", "g", "i", "n", "g">>,
      <<"t", "r", "a", "c", "e", "b", "a", "c", "k">>,
      <<"h", "a", "s", "h", "l", "i", "b">>,
      <<"t", "e", "m", "p", "f", "i", "l", "e">> }

\* Largest number of import statements in a source file of the project.
MaxImports == 2
\* Largest number of validation passes run in succession.
MaxPasses == 2

\* The source files a project may hold, and the module names they import.
TodoPy == <<"t", ".", "p", "y">>
UtilsPy == <<"p", "/", "u", ".", "p", "y">>
HelpersPy == <<"p", "/", "h", ".", "p", "y">>
PyPaths == <<TodoPy, UtilsPy, HelpersPy>>
ImportNames == { <<"o", "s">>, <<"r", "e">>, <<"u">>, <<"h">> }
\* The folder project_structure.json declares.
DocsFolder == <<"d", "o", "c", "s">>

\* str(py_file.relative_to(project_path)).replace("/", ".")[:-3]
ModulePath(path) ==
    [i \in 1..(Len(path) - 3) |-> IF path[i] = "/" THEN "." ELSE path[i]]

\* imported.split('.')[0] and imported.split('.')[-1]
FirstComponent(name) ==
    LET dot == Find(name, ".", 1)
    IN  IF dot = 0 THEN name ELSE SubSeq(name, 1, dot - 1)
LastComponent(name) == From(name, FindLast(name, ".", Len(name)) + 1)

\* x in m, for texts
Contains(m, x) ==
    \E i \in 1..(Len(m) + 1) : i + Len(x) - 1 <= Len(m) /\ SubSeq(m, i, i + Len(x) - 1) = x

\* A source file: absent, or its import targets, whether it parses, and whether
\* its text is one that _validate_syntax wrote.
Absent == [exists |-> FALSE, imports |-> <<>>, parses |-> TRUE, repaired |-> FALSE]
Source(imports, parses) ==
    [exists |-> TRUE, imports |-> imports, parses |-> parses, repaired |-> FALSE]

\* The sequences of at most n elements of a set.
SeqsUpTo(S, n) == UNION { [1..k -> S] : k \in 0..n }

\* The orders in which a set may be iterated.
Orders(S) ==
    { order \in [1..Cardinality(S) -> S] :
        \A i, j \in 1..Cardinality(S) : order[i] = order[j] => i = j }

\* The results dictionary of a pass (lines 1027-1032).
NewResults ==
    [validation_status |-> "success", issues_found |-> 0, issues_fixed |-> 0,
     details |-> <<>>, error |-> None]

\* results["details"].append(issue); results["issues_found"] += 1, after
\* results["issues_fixed"] += 1 when the issue was fixed.
RecordIssue(results, file, type, fixed) ==
    [results EXCEPT
        !.details = Append(@, [file |-> file, type |-> type, fixed |-> fixed]),
        !.issues_found = @ + 1,
        !.issues_fixed = IF fixed THEN @ + 1 ELSE @]

\* ---------------------------------------------------------------- the checks
\* Each check takes and gives the pair of the project directory and the
\* results dictionary.

\* list(project_path.glob("**/*.py")), in the order of PyPaths.
python_files(dir) == SelectSeq(PyPaths, LAMBDA path : dir.py[path].exists)

\* available_modules (lines 1073-1076)
available_modules(dir) ==
    { ModulePath(PyPaths[i]) : i \in {j \in 1..Len(PyPaths) : dir.py[PyPaths[j]].exists} }

\* is_valid (lines 1094-1098)
is_valid(imported, available) ==
    \E module \in available :
        imported = module \/ StartsWith(imported, module \o <<".">>)

\* re.sub of lines 1117-1122 on the import statements of a content: every
\* statement whose target starts with imported gets new_import in its place.
ReplaceImport(imports, imported, new_import) ==
    [i \in 1..Len(imports) |->
        IF StartsWith(imports[i], imported)
        THEN new_import \o From(imports[i], Len(imported) + 1)
        ELSE imports[i]]

\* similar_modules[0]: the first module, in the iteration order of the set,
\* that holds the last component of the imported name.
FirstSimilar(imported, order) ==
    LET similar == {i \in DOMAIN order : Contains(order[i], LastComponent(imported))}
    IN  IF similar = {} THEN None
        ELSE order[CHOOSE i \in similar : \A j \in similar : i <= j]

\* The loop over the imports of one file (lines 1088-1135).  content is the
\* text read at line 1082; every replacement is computed on it and written
\* over the file.
RECURSIVE CheckImports(_, _, _, _, _)
CheckImports(path, source, imports, st, order) ==
    IF imports = <<>> THEN st
    ELSE LET imported == Head(imports)
             new_import == FirstSimilar(imported, order)
             fixed == new_import # None
             written == [source EXCEPT
                            !.imports = ReplaceImport(@, imported, new_import)]
         IN  IF FirstComponent(imported) \in IgnoredImports
                \/ is_valid(imported, available_modules(st.disk))
             THEN CheckImports(path, source, Tail(imports), st, order)
             ELSE CheckImports(path, source, Tail(imports),
                     [disk |-> IF fixed
                               THEN [st.disk EXCEPT !.py[path] = written]
                               ELSE st.disk,
                      results |-> RecordIssue(st.results, path, "import_error", fixed)],
                     order)

\* _validate_imports: the loop over the files (lines 1079-1138).
RECURSIVE validate_imports(_, _, _)
validate_imports(files, st, order) ==
    IF files = <<>> THEN st
    ELSE LET source == st.disk.py[Head(files)]
         IN  validate_imports(Tail(files),
                 CheckImports(Head(files), source, source.imports, st, order), order)

\* What fix_code may come to: it raises, or returns a text that ast.parse
\* rejects, or one it accepts.
FixOutcomes == {"raises", "rejected", "accepted"}

\* The body of the loop of _validate_syntax, mutated: the text fix_code returns
\* is written before ast.parse has accepted it.
CheckSyntaxWritingFirst(path, st, outcome) ==
    LET fixed == outcome = "accepted"
    IN  IF st.disk.py[path].parses THEN st
        ELSE [disk |-> IF outcome # "raises"
                       THEN [st.disk EXCEPT !.py[path].parses = fixed,
                                            !.py[path].repaired = TRUE]
                       ELSE st.disk,
              results |-> RecordIssue(st.results, path, "syntax_error", fixed)]

\* The body of the loop of _validate_syntax (lines 1144-1185) for one file;
\* outcome is what fix_code came to. The text is written only once ast.parse
\* has accepted it.
CheckSyntax(path, st, outcome) ==
    LET fixed == outcome = "accepted"
    IN  IF st.disk.py[path].parses THEN st
        ELSE [disk |-> IF fixed
                       THEN [st.disk EXCEPT !.py[path].parses = TRUE,
                                            !.py[path].repaired = TRUE]
                       ELSE st.disk,
              results |-> RecordIssue(st.results, path, "syntax_error", fixed)]

\* _validate_syntax: the loop over the files (lines 1143-1185); fix gives
\* the outcome of fix_code on each file that does not parse.
RECURSIVE validate_syntax(_, _, _)
validate_syntax(files, st, fix) ==
    IF files = <<>> THEN st
    ELSE LET path == Head(files)
         IN  validate_syntax(Tail(files),
                 CheckSyntax(path, st, IF path \in DOMAIN fix THEN fix[path] ELSE "raises"),
                 fix)

\* imported_packages, without the standard ones (lines 1201-1223)
imported_packages(dir) ==
    UNION { { FirstComponent(dir.py[PyPaths[i]].imports[k]) :
                k \in 1..Len(dir.py[PyPaths[i]].imports) } :
            i \in {j \in 1..Len(PyPaths) : dir.py[PyPaths[j]].exists} } \ std_libs

\* requirements.txt is a sequence of entries: a line of the file as it was
\* found, or the block one pass appended, its comment line followed by the
\* added names, one per line, in the iteration order of a set.
ManifestLine(text) == [text |-> text, added |-> {}]
AddedBlock(names) == [text |-> <<"#">>, added |-> names]
NoManifest == [exists |-> FALSE, lines |-> <<>>]
Manifest(lines) == [exists |-> TRUE, lines |-> lines]

\* The text before the first occurrence of sep: s.split(sep)[0].
RECURSIVE SplitHead(_, _)
SplitHead(s, sep) ==
    IF s = <<>> \/ StartsWith(s, sep) THEN <<>>
    ELSE <<Head(s)>> \o SplitHead(Tail(s), sep)

\* dep.split('==')[0].split('>')[0].split('<')[0].strip()
DeclaredName(dep) ==
    Strip(SplitHead(SplitHead(SplitHead(dep, <<"=", "=">>), <<">">>), <<"<">>))

\* The lines of the file that count as dependencies (line 1198), stripped.
DependencyLines(lines) ==
    UNION { (IF Strip(lines[i].text) # <<>> /\ ~StartsWith(lines[i].text, <<"#">>)
             THEN {Strip(lines[i].text)} ELSE {})
            \cup { Strip(name) : name \in { n \in lines[i].added : Strip(n) # <<>> } } :
            i \in 1..Len(lines) }

\* declared_packages (line 1226)
declared_packages(lines) == { DeclaredName(dep) : dep \in DependencyLines(lines) }

\* _validate_dependencies: the packages imported and not declared are
\* appended to requirements.txt, as one issue.
validate_dependencies(st) ==
    LET missing_packages ==
            imported_packages(st.disk) \ declared_packages(st.disk.requirements.lines)
    IN  IF ~st.disk.requirements.exists \/ missing_packages = {} THEN st
        ELSE [disk |-> [st.disk EXCEPT !.requirements.lines =
                                           Append(@, AddedBlock(missing_packages))],
              results |-> RecordIssue(st.results, <<"requirements.txt">>,
                                      "missing_dependencies", TRUE)]

\* The files project_structure.json declares.
DeclaredPaths == <<TodoPy, HelpersPy>>

\* What becomes of a declared file that is missing: generate_file_content
\* returns a text, which parses or not, and the file is written; or the
\* generation, the mkdir of the parent or the write raises and the file stays
\* missing.
GenerationOutcomes == { Absent, Source(<<>>, TRUE), Source(<<>>, FALSE) }

\* The loop over the declared files, mutated: the issue is marked fixed
\* whether or not the file could be written.
RestoreFilesMarkingAll(files, st, generated) ==
    LET Step[k \in 0..Len(files)] ==
            IF k = 0 THEN st
            ELSE IF Step[k - 1].disk.py[files[k]].exists THEN Step[k - 1]
            ELSE [disk |-> [Step[k - 1].disk EXCEPT !.py[files[k]] = generated[files[k]]],
                  results |-> RecordIssue(Step[k - 1].results, files[k], "missing_file", TRUE)]
    IN  Step[Len(files)]

\* The loop over the declared files (lines 1293-1322); generated gives, for
\* each missing file, what its generation comes to.
RestoreFiles(files, st, generated) ==
    LET Step[k \in 0..Len(files)] ==
            IF k = 0 THEN st
            ELSE IF Step[k - 1].disk.py[files[k]].exists THEN Step[k - 1]
            ELSE [disk |-> [Step[k - 1].disk EXCEPT !.py[files[k]] = generated[files[k]]],
                  results |-> RecordIssue(Step[k - 1].results, files[k], "missing_file",
                                          generated[files[k]].exists)]
    IN  Step[Len(files)]

\* _validate_structure: a declared folder that is missing is made (made says
\* whether mkdir succeeds), a declared file that is missing is generated.
validate_structure(st, made, generated) ==
    IF ~st.disk.structure THEN st
    ELSE LET folders ==
                 IF DocsFolder \in st.disk.dirs THEN st
                 ELSE [disk |-> IF made THEN [st.disk EXCEPT !.dirs = @ \cup {DocsFolder}]
                                ELSE st.disk,
                       results |-> RecordIssue(st.results, DocsFolder, "missing_folder", made)]
         IN  RestoreFiles(DeclaredPaths, folders, generated)

\* The mutant marks a project with any fixed issue as fixed.
overall_status_any_fixed(results) ==
    IF results.issues_found > 0
    THEN IF results.issues_fixed > 0 THEN "fixed" ELSE "issues_remaining"
    ELSE results.validation_status

\* The overall status (lines 1048-1052).
overall_status(results) ==
    IF results.issues_found > 0
    THEN IF results.issues_fixed = results.issues_found THEN "fixed" ELSE "issues_remaining"
    ELSE results.validation_status

VARIABLES
    vpc,            \* where validate_and_fix_project is
    passes,         \* number of passes started
    project,        \* the project directory
    project_before, \* the project directory when the current pass started
    results,        \* the results dictionary of the current pass
    previous        \* the results the previous pass returned

validatorVars == <<vpc, passes, project, project_before, results, previous>>

\* No report has been written.
NoReport == [exists |-> FALSE, results |-> NewResults]

\* Lines of a requirements.txt: the module u pinned, and bounded with ~=.
PinnedLines == { <<"u", "=", "=", "1">>, <<"u", "~", "=", "1">> }

\* The project directories a pass may be run on; a project without
\* project_structure.json has no folder.
AllProjects ==
    { [py |-> [path \in {TodoPy, UtilsPy, HelpersPy} |->
                 IF path = TodoPy THEN Source(imports, parses)
                 ELSE IF path = UtilsPy /\ utils THEN Source(<<>>, TRUE)
                 ELSE IF path = HelpersPy /\ helpers THEN Source(<<>>, TRUE)
                 ELSE Absent],
       requirements |-> requirements,
       structure |-> structure,
       dirs |-> dirs,
       report |-> NoReport] :
        imports \in SeqsUpTo(ImportNames, MaxImports),
        parses \in BOOLEAN, utils \in BOOLEAN, helpers \in BOOLEAN,
        requirements \in { NoManifest, Manifest(<<>>) }
                           \cup { Manifest(<<ManifestLine(line)>>) : line \in PinnedLines },
        structure \in BOOLEAN,
        dirs \in { {}, {DocsFolder} } }

Projects ==
    { dir \in AllProjects :
        /\ dir.structure \/ dir.dirs = {}
        /\ dir.structure => Len(dir.py[TodoPy].imports) <= 1
        /\ dir.requirements.lines # <<>> => ~dir.structure /\ dir.py[TodoPy].parses }

InitValidatorOn(projects) ==
    /\ vpc = "idle"
    /\ passes = 0
    /\ project \in projects
    /\ project_before = project
    /\ results = NewResults
    /\ previous = NewResults

InitValidator == InitValidatorOn(Projects)

\* No project is being validated.
IdleValidator ==
    InitValidatorOn({ [py |-> [path \in {TodoPy, UtilsPy, HelpersPy} |-> Absent],
                       requirements |-> NoManifest,
                       structure |-> FALSE, dirs |-> {}, report |-> NoReport] })

\* validate_and_fix_project up to the try (lines 1019-1032).
StartPass ==
    /\ vpc \in {"idle", "done"}
    /\ passes < MaxPasses
    /\ passes' = passes + 1
    /\ previous' = results
    /\ results' = NewResults
    /\ project_before' = project
    /\ vpc' = "imports"
    /\ UNCHANGED project

\* Step 1, self._validate_imports(project_path, results).
ValidateImports ==
    /\ vpc = "imports"
    /\ \E order \in Orders(available_modules(project)) :
          LET st == validate_imports(python_files(project),
                                     [disk |-> project, results |-> results], order)
          IN  /\ project' = st.disk
              /\ results' = st.results
    /\ vpc' = "syntax"
    /\ UNCHANGED <<passes, project_before, previous>>

\* Step 2, self._validate_syntax(project_path, results).
ValidateSyntax ==
    /\ vpc = "syntax"
    /\ \E fix \in [{path \in DOMAIN project.py : ~project.py[path].parses} -> FixOutcomes] :
          LET st == validate_syntax(python_files(project),
                                    [disk |-> project, results |-> results], fix)
          IN  /\ project' = st.disk
              /\ results' = st.results
    /\ vpc' = "dependencies"
    /\ UNCHANGED <<passes, project_before, previous>>

\* The outer except (lines 1062-1066): the pass ends on an internal error.
InternalError(message) ==
    /\ results' = [results EXCEPT !.validation_status = "error", !.error = message]
    /\ vpc' = "done"
    /\ UNCHANGED <<passes, project, project_before, previous>>

\* Step 2 when listing the source files raises: the glob of line 1143 is
\* outside the try of the loop body.
ListingRaises ==
    /\ vpc = "syntax"
    /\ InternalError(<<"OSError">>)

\* Step 3, self._validate_dependencies(project_path, results).
ValidateDependencies ==
    /\ vpc = "dependencies"
    /\ LET st == validate_dependencies([disk |-> project, results |-> results])
       IN  /\ project' = st.disk
           /\ results' = st.results
    /\ vpc' = "structure"
    /\ UNCHANGED <<passes, project_before, previous>>

\* The declared files that are missing from a project with a structure file.
MissingFiles(dir) ==
    IF ~dir.structure THEN {}
    ELSE { DeclaredPaths[i] : i \in { j \in 1..Len(DeclaredPaths) :
                                          ~dir.py[DeclaredPaths[j]].exists } }

\* Step 4, self._validate_structure(project_path, results).
ValidateStructure ==
    /\ vpc = "structure"
    /\ \E made \in (IF project.structure /\ DocsFolder \notin project.dirs
                    THEN BOOLEAN ELSE {TRUE}),
          generated \in [MissingFiles(project) -> GenerationOutcomes] :
          LET st == validate_structure([disk |-> project, results |-> results],
                                       made, generated)
          IN  /\ project' = st.disk
              /\ results' = st.results
    /\ vpc' = "report"
    /\ UNCHANGED <<passes, project_before, previous>>

\* The overall status, the report and the return (lines 1047-1060).
WriteReport ==
    /\ vpc = "report"
    /\ LET final == [results EXCEPT !.validation_status = overall_status(results)]
       IN  /\ results' = final
           /\ project' = [project EXCEPT !.report = [exists |-> TRUE, results |-> final]]
    /\ vpc' = "done"
    /\ UNCHANGED <<passes, project_before, previous>>

\* Writing validation_report.json raises.
WriteReportRaises ==
    /\ vpc = "report"
    /\ InternalError(<<"OSError">>)

\* ------------------------------------------- OllamaClient._generate_with_cli
\* The local-executable transport, step by step: the temporary prompt file, the
\* run of the executable, the finally clause, and the loop of generate round it.

\* Number of generate calls explored on a client without the API.
MaxCliCalls == 2

\* File names of the temporary directory.
TempNames == { "tmp1", "tmp2", "tmp3" }

\* The prompt and the model of the calls explored.
CliPrompt == <<"p">>

\* What subprocess.run makes of the executable: an exit status with the
\* captured output, TimeoutExpired after 180 s, or an OSError (no executable).
RunOutcomes ==
    { [kind |-> "exit", returncode |-> 0, stdout |-> x] : x \in Texts }
    \cup { [kind |-> "exit", returncode |-> 1, stdout |-> <<>>] }
    \cup { [kind |-> "raise", returncode |-> 0, stdout |-> e] :
             e \in { <<"TimeoutExpired">>, <<"FileNotFoundError">> } }

\* How the inner try block is left: return result.stdout, or an exception.
Returning(x) == [kind |-> "return", value |-> x]
Raising(e) == [kind |-> "raise", value |-> e]
NoOutcome == [kind |-> "none", value |-> <<>>]

\* finally: os.unlink(temp_path), only where the block returns.
unlink_on_return(dir, path, outcome) ==
    IF outcome.kind = "return" THEN dir \ {path} ELSE dir

\* finally: os.unlink(temp_path), however the block is left.
unlink_finally(dir, path, outcome) == dir \ {path}

VARIABLES
    kpc,              \* "idle" | "loop" | "created" | "written" | "finally" | "returned" | "raised"
    k_retries,        \* OllamaClient.max_retries
    k_attempt,        \* generate: the loop variable
    k_cache_enabled,  \* CacheManager.enabled
    k_cache_files,    \* the entries of the cache directory
    temp_dir,         \* the names present in the temporary directory
    temp_path,        \* _generate_with_cli: temp_path
    created,          \* history: the names mkstemp has returned to the gateway
    pending,          \* how the inner try block is being left
    k_result,         \* generate: the value returned
    k_error,          \* generate: the exception raised
    k_calls           \* number of generate calls made

cliVars == <<kpc, k_retries, k_attempt, k_cache_enabled, k_cache_files, temp_dir,
             temp_path, created, pending, k_result, k_error, k_calls>>

\* A client whose API probe failed; files of other programs may lie in the
\* temporary directory.
InitCli ==
    /\ kpc = "idle"
    /\ k_retries \in 0..MaxRetries
    /\ k_attempt = 0
    /\ k_cache_enabled \in BOOLEAN
    /\ k_cache_files = <<>>
    /\ temp_dir \in SUBSET TempNames
    /\ temp_path = None
    /\ created = {}
    /\ pending = NoOutcome
    /\ k_result = None
    /\ k_error = None
    /\ k_calls = 0

\* No client uses the executable.
IdleCli ==
    /\ kpc = "idle"
    /\ k_retries = 0
    /\ k_attempt = 0
    /\ k_cache_enabled = FALSE
    /\ k_cache_files = <<>>
    /\ temp_dir = {}
    /\ temp_path = None
    /\ created = {}
    /\ pending = NoOutcome
    /\ k_result = None
    /\ k_error = None
    /\ k_calls = 0

\* generate(prompt), up to the first attempt: the cache lookup and the loop header.
CliGenerate ==
    /\ kpc \in {"idle", "returned", "raised"}
    /\ k_calls < MaxCliCalls
    /\ LET cached_response ==
               get_from_cache(k_cache_enabled, k_cache_files, CliPrompt, DefaultModel)
       IN  IF Truthy(cached_response)
           THEN kpc' = "returned" /\ k_result' = cached_response
           ELSE IF 0 < k_retries
           THEN kpc' = "loop" /\ k_result' = None
           ELSE kpc' = "returned" /\ k_result' = None
    /\ k_attempt' = 0
    /\ k_error' = None
    /\ k_calls' = k_calls + 1
    /\ UNCHANGED <<k_retries, k_cache_enabled, k_cache_files, temp_dir, temp_path,
                   created, pending>>

\* generate's side of an attempt that has ended with the given outcome: the
\* cache store and the return, or the except clause with its sleep.
AttemptEnds(outcome) ==
    IF outcome.kind = "return"
    THEN /\ k_cache_files' = save_to_cache(k_cache_enabled, k_cache_files, CliPrompt,
                                           DefaultModel, outcome.value)
         /\ k_result' = outcome.value
         /\ kpc' = "returned"
         /\ UNCHANGED <<k_attempt, k_error>>
    ELSE /\ IF IsLastAttempt(k_attempt, k_retries)
            THEN /\ kpc' = "raised"
                 /\ k_error' = outcome.value
                 /\ UNCHANGED k_attempt
            ELSE /\ k_attempt' = k_attempt + 1
                 /\ kpc' = "loop"
                 /\ UNCHANGED k_error
         /\ UNCHANGED <<k_cache_files, k_result>>

\* fd, temp_path = tempfile.mkstemp(text=True): a new file under a fresh name.
Mkstemp ==
    /\ kpc = "loop"
    /\ \E name \in TempNames \ temp_dir :
        /\ temp_dir' = temp_dir \cup {name}
        /\ temp_path' = name
        /\ created' = created \cup {name}
    /\ kpc' = "created"
    /\ UNCHANGED <<k_retries, k_attempt, k_cache_enabled, k_cache_files, pending,
                   k_result, k_error, k_calls>>

\* mkstemp raises (no usable directory, no free name): no file, and the
\* inner try block is not entered.
MkstempRaises ==
    /\ kpc = "loop"
    /\ AttemptEnds(Raising(<<"OSError">>))
    /\ UNCHANGED <<k_retries, k_cache_enabled, temp_dir, temp_path, created, pending,
                   k_calls>>

\* with os.fdopen(fd, "w") as f: f.write(prompt)
WritePrompt ==
    /\ kpc = "created"
    /\ kpc' = "written"
    /\ UNCHANGED <<k_retries, k_attempt, k_cache_enabled, k_cache_files, temp_dir,
                   temp_path, created, pending, k_result, k_error, k_calls>>

\* Opening the descriptor or writing the prompt raises.
WritePromptRaises ==
    /\ kpc = "created"
    /\ pending' = Raising(<<"OSError">>)
    /\ kpc' = "finally"
    /\ UNCHANGED <<k_retries, k_attempt, k_cache_enabled, k_cache_files, temp_dir,
                   temp_path, created, k_result, k_error, k_calls>>

\* subprocess.run([... "-f", temp_path], timeout=180), the test of the exit
\* status, and return result.stdout.
RunExecutable ==
    /\ kpc = "written"
    /\ \E run \in RunOutcomes :
        pending' = IF run.kind = "raise" THEN Raising(run.stdout)
                   ELSE IF run.returncode # 0 THEN Raising(<<"RuntimeError">>)
                   ELSE Returning(run.stdout)
    /\ kpc' = "finally"
    /\ UNCHANGED <<k_retries, k_attempt, k_cache_enabled, k_cache_files, temp_dir,
                   temp_path, created, k_result, k_error, k_calls>>

\* The finally clause, then the outcome of the block reaches generate.
Finally ==
    /\ kpc = "finally"
    /\ temp_dir' = unlink_finally(temp_dir, temp_path, pending)
    /\ AttemptEnds(pending)
    /\ pending' = NoOutcome
    /\ UNCHANGED <<k_retries, k_cache_enabled, temp_path, created, k_calls>>

\* ----------------------------------------- CursorProjectGenerator.fix_project
\* The repair run over the issues of an analysis: one fix_code call per issue,
\* a backup beside the file, the rewrite, and the report at the end.

\* Largest number of issues in an analysis.
MaxIssues == 3

\* Files of the project that exist when the run starts, with their content.
FixFiles == [ a_py |-> "a0", b_py |-> "b0" ]
\* issue.get("file"): an existing file, a path with no regular file behind it,
\* or nothing.
NoFileName == ""
IssueFiles == { "a_py", "b_py", "gone_py", NoFileName }
Issues == { [file |-> f, type |-> "Bug"] : f \in IssueFiles }

\* The texts fix_code returns.
CorrectedContents == { "c1", "c2" }

\* No backup file.
NoBackup == "absent"

\* results = {"fixed_files": [], "skipped_files": [], "errors": []}
NewFixResults == [fixed_files |-> <<>>, skipped_files |-> <<>>, errors |-> <<>>]

\* report = {..., "fixed_count": len(...), ..., "details": results}
FixReport(res) ==
    [fixed_count |-> Len(res.fixed_files),
     skipped_count |-> Len(res.skipped_files),
     error_count |-> Len(res.errors),
     details |-> res]

\* shutil.copy2(file_path, backup_path): the backup holds the file as it is now.
copy2(backups, files, file) == [backups EXCEPT ![file] = files[file]]

VARIABLES
    fpc,           \* "idle" | "loop" | "report" | "returned" | "raised"
    fx_issues,     \* analysis.get("issues", [])
    fx_next,       \* position of the loop in issues
    fx_files,      \* the content of the project's files
    fx_backups,    \* the content of the .bak file beside each file
    fx_results,    \* results
    fx_report,     \* fix_report.json: whether it exists and what it holds
    fx_returned    \* what the call returned: "none" | "results" | "report"

fixVars == <<fpc, fx_issues, fx_next, fx_files, fx_backups, fx_results, fx_report,
             fx_returned>>

NoFixReport == [exists |-> FALSE, report |-> FixReport(NewFixResults)]

InitFix ==
    /\ fpc = "idle"
    /\ fx_issues \in SeqsUpTo(Issues, MaxIssues)
    /\ fx_next = 1
    /\ fx_files = FixFiles
    /\ fx_backups = [f \in DOMAIN FixFiles |-> NoBackup]
    /\ fx_results = NewFixResults
    /\ fx_report = NoFixReport
    /\ fx_returned = "none"

\* No repair run.
IdleFix ==
    /\ fpc = "idle"
    /\ fx_issues = <<>>
    /\ fx_next = 1
    /\ fx_files = FixFiles
    /\ fx_backups = [f \in DOMAIN FixFiles |-> NoBackup]
    /\ fx_results = NewFixResults
    /\ fx_report = NoFixReport
    /\ fx_returned = "none"

\* fix_project(project_path, analysis) up to the loop: without issues it
\* returns results at once (line 1785-1787).
FixProject ==
    /\ fpc = "idle"
    /\ IF fx_issues = <<>>
       THEN fpc' = "returned" /\ fx_returned' = "results"
       ELSE fpc' = "loop" /\ UNCHANGED fx_returned
    /\ UNCHANGED <<fx_issues, fx_next, fx_files, fx_backups, fx_results, fx_report>>

\* The loop has handled its issue: the next one, or the report.
Advance ==
    /\ fx_next' = fx_next + 1
    /\ fpc' = IF fx_next = Len(fx_issues) THEN "report" ELSE "loop"

\* An issue that names no file (errors) or no regular file of the project (skipped).
SkipIssue ==
    /\ fpc = "loop"
    /\ LET file_rel_path == fx_issues[fx_next].file
       IN  /\ file_rel_path \notin DOMAIN fx_files
           /\ fx_results' =
                IF file_rel_path = NoFileName
                THEN [fx_results EXCEPT !.errors =
                          Append(@, [file |-> file_rel_path, error |-> "no file"])]
                ELSE [fx_results EXCEPT !.skipped_files =
                          Append(@, [file |-> file_rel_path, reason |-> "not found"])]
    /\ Advance
    /\ UNCHANGED <<fx_issues, fx_files, fx_backups, fx_report, fx_returned>>

\* An issue whose file is repaired: fix_code, the backup, the rewrite.
FixIssue ==
    /\ fpc = "loop"
    /\ LET file_rel_path == fx_issues[fx_next].file
       IN  /\ file_rel_path \in DOMAIN fx_files
           /\ \E corrected_content \in CorrectedContents :
               /\ fx_backups' = copy2(fx_backups, fx_files, file_rel_path)
               /\ fx_files' = [fx_files EXCEPT ![file_rel_path] = corrected_content]
           /\ fx_results' = [fx_results EXCEPT !.fixed_files =
                  Append(@, [file |-> file_rel_path, issue |-> fx_issues[fx_next].type])]
    /\ Advance
    /\ UNCHANGED <<fx_issues, fx_report, fx_returned>>

\* An issue whose fix_code call raises: caught, recorded, nothing written.
FixCodeRaises ==
    /\ fpc = "loop"
    /\ LET file_rel_path == fx_issues[fx_next].file
       IN  /\ file_rel_path \in DOMAIN fx_files
           /\ fx_results' = [fx_results EXCEPT !.errors =
                  Append(@, [file |-> file_rel_path, error |-> "fix_code"])]
    /\ Advance
    /\ UNCHANGED <<fx_issues, fx_files, fx_backups, fx_report, fx_returned>>

\* An issue whose rewrite cannot be opened after the backup was made.
RewriteRaises ==
    /\ fpc = "loop"
    /\ LET file_rel_path == fx_issues[fx_next].file
       IN  /\ file_rel_path \in DOMAIN fx_files
           /\ fx_backups' = copy2(fx_backups, fx_files, file_rel_path)
           /\ fx_results' = [fx_results EXCEPT !.errors =
                  Append(@, [file |-> file_rel_path, error |-> "open"])]
    /\ Advance
    /\ UNCHANGED <<fx_issues, fx_files, fx_report, fx_returned>>

\* The report is built, written to fix_report.json and returned.
WriteFixReport ==
    /\ fpc = "report"
    /\ fx_report' = [exists |-> TRUE, report |-> FixReport(fx_results)]
    /\ fx_returned' = "report"
    /\ fpc' = "returned"
    /\ UNCHANGED <<fx_issues, fx_next, fx_files, fx_backups, fx_results>>

\* Writing fix_report.json raises: the outer except logs and re-raises.
WriteFixReportRaises ==
    /\ fpc = "report"
    /\ fpc' = "raised"
    /\ UNCHANGED <<fx_issues, fx_next, fx_files, fx_backups, fx_results, fx_report,
                   fx_returned>>

\* ------------------------------------------------------------------- main
\* One run of the command line: the generator is constructed from the
\* configuration, the global options are written into generator.config, and the
\* command then calls the model and creates the project.

\* Number of model calls explored in one run.
MaxModelCalls == 2

\* --path of the command line.
ArgPath == <<"elsewhere">>

\* The command lines explored: --model, --path, --no-cache, --no-venv.
CommandLines ==
    [model : Models \cup {None}, path : {None, ArgPath},
     no_cache : BOOLEAN, no_venv : BOOLEAN]

\* The configurations _load_config can return.
Configs ==
    [model_name : {DefaultModel}, base_path : {BasePath},
     cache_enabled : BOOLEAN, setup_venv : BOOLEAN]

\* main, lines 147-158: the options overwrite entries of generator.config.
ApplyOptions(config, args) ==
    [config EXCEPT
        !.model_name = IF Truthy(args.model) THEN args.model ELSE @,
        !.base_path = IF Truthy(args.path) THEN args.path ELSE @,
        !.setup_venv = IF args.no_venv THEN FALSE ELSE @,
        !.cache_enabled = IF args.no_cache THEN FALSE ELSE @]

VARIABLES
    mpc,                \* "start" | "constructed" | "overridden" | "created"
    args,               \* the parsed command line
    config,             \* generator.config
    client_model_name,  \* generator.ollama.model_name
    client_cache,       \* generator.ollama.cache.enabled
    base_path,          \* generator.base_path
    model_calls,        \* history: the model and the cache use of every generate call
    project_parent,     \* history: the directory the project was created in
    venv_made           \* history: whether the virtual environment was set up

mainVars == <<mpc, args, config, client_model_name, client_cache, base_path,
              model_calls, project_parent, venv_made>>

InitMain ==
    /\ mpc = "start"
    /\ args \in CommandLines
    /\ config \in Configs
    /\ client_model_name = None
    /\ client_cache = FALSE
    /\ base_path = None
    /\ model_calls = <<>>
    /\ project_parent = None
    /\ venv_made = FALSE

\* No run of the command line.
IdleMain ==
    /\ mpc = "start"
    /\ args = [model |-> None, path |-> None, no_cache |-> FALSE, no_venv |-> FALSE]
    /\ config = [model_name |-> DefaultModel, base_path |-> BasePath,
                 cache_enabled |-> TRUE, setup_venv |-> TRUE]
    /\ client_model_name = None
    /\ client_cache = FALSE
    /\ base_path = None
    /\ model_calls = <<>>
    /\ project_parent = None
    /\ venv_made = FALSE

\* CursorProjectGenerator(config_path): base_path, the client with its model
\* name and its cache are made from the configuration as loaded.
ConstructGenerator ==
    /\ mpc = "start"
    /\ base_path' = config.base_path
    /\ client_model_name' = config.model_name
    /\ client_cache' = config.cache_enabled
    /\ mpc' = "constructed"
    /\ UNCHANGED <<args, config, model_calls, project_parent, venv_made>>

\* main, lines 147-158.
ApplyOverrides ==
    /\ mpc = "constructed"
    /\ config' = ApplyOptions(config, args)
    /\ mpc' = "overridden"
    /\ UNCHANGED <<args, client_model_name, client_cache, base_path, model_calls,
                   project_parent, venv_made>>

\* self.ollama.generate(prompt): the client's model, the client's cache.
ModelCall ==
    /\ mpc = "overridden"
    /\ Len(model_calls) < MaxModelCalls
    /\ model_calls' = Append(model_calls,
           [model |-> client_model_name, cache |-> client_cache])
    /\ UNCHANGED <<mpc, args, config, client_model_name, client_cache, base_path,
                   project_parent, venv_made>>

\* create_project: the project directory under self.base_path, the virtual
\* environment when config["setup_venv"].
CreateProject ==
    /\ mpc = "overridden"
    /\ project_parent' = base_path
    /\ venv_made' = config.setup_venv
    /\ mpc' = "created"
    /\ UNCHANGED <<args, config, client_model_name, client_cache, base_path, model_calls>>

\* The state of the parts added after the cache, the gateway and the project.
laterVars == <<textVars, jsonVars, structureVars, validatorVars, cliVars, fixVars, mainVars>>

\* None of the later parts is in use.
IdleLater == IdleText /\ IdleJson /\ IdleStructure /\ IdleValidator /\ IdleCli /\ IdleFix /\ IdleMain

vars == <<cacheVars, gatewayVars, projectVars, laterVars>>

Init == InitCache /\ InitGateway /\ InitProject /\ IdleLater

NextCache ==
    \/ NewCacheManager /\ UNCHANGED <<gatewayVars, projectVars, laterVars>>
    \/ SaveToCache /\ UNCHANGED <<gatewayVars, projectVars, laterVars>>
    \/ GetFromCache /\ UNCHANGED <<gatewayVars, projectVars, laterVars>>

SpecCache == Init /\ [][NextCache]_vars

NextProject ==
    \/ NewCursorProjectGenerator /\ UNCHANGED <<cacheVars, gatewayVars, laterVars>>
    \/ GenerateProjectStructure /\ UNCHANGED <<cacheVars, gatewayVars, laterVars>>
    \/ CreateFolders /\ UNCHANGED <<cacheVars, gatewayVars, laterVars>>
    \/ TaskCompletes /\ UNCHANGED <<cacheVars, gatewayVars, laterVars>>
    \/ ProcessResult /\ UNCHANGED <<cacheVars, gatewayVars, laterVars>>
    \/ Finish /\ UNCHANGED <<cacheVars, gatewayVars, laterVars>>

\* The project generator on its own, the cache directory being absent.
InitProjectOnly ==
    InitCacheOn({[dir |-> FALSE, files |-> <<>>]}) /\ InitGateway /\ InitProject
    /\ IdleLater

SpecProject == InitProjectOnly /\ [][NextProject]_vars

NextGateway ==
    \/ NewOllamaClient /\ UNCHANGED <<projectVars, laterVars>>
    \/ Generate /\ UNCHANGED <<projectVars, laterVars>>
    \/ TransportReturns /\ UNCHANGED <<projectVars, laterVars>>
    \/ TransportRaises /\ UNCHANGED <<projectVars, laterVars>>

SpecGateway == Init /\ [][NextGateway]_vars

\* The cache, the gateway and the project at rest.
IdleCore ==
    InitCacheOn({[dir |-> FALSE, files |-> <<>>]}) /\ InitGateway /\ InitProject

coreVars == <<cacheVars, gatewayVars, projectVars>>

NextClean == CleanCodeContent /\ UNCHANGED <<coreVars, jsonVars, structureVars, validatorVars, cliVars, fixVars, mainVars>>

InitClean == IdleCore /\ InitText /\ IdleJson /\ IdleStructure /\ IdleValidator /\ IdleCli /\ IdleFix /\ IdleMain

SpecClean == InitClean /\ [][NextClean]_vars

\* ------------------------------------------------------------------ claims
LastPair == <<last_op.model, last_op.prompt>>
CallPair == <<g_model, g_prompt>>
CallOver == gpc \in {"returned", "raised"}

\* C1: with caching enabled, once generate(p, m) has returned a text obtained
\* from a transport, a later generate(p, m) returns that same text and makes
\* no transport call.
C1_RepeatIsServedFromCache ==
    (cache_enabled /\ prior # None /\ gpc \in {"attempt", "returned", "raised"})
        => (gpc = "returned" /\ g_result = prior /\ log = <<>>)

C3_ReturnsATextOrRaises == gpc = "returned" => g_result # None

\* C4: with caching enabled, a lookup of a pair returns exactly the text last
\* stored for that pair, whatever was stored or looked up for other pairs in
\* between.
C4_StoreLookupRoundTrip ==
    (cpc = "ready" /\ cache_enabled /\ last_op.op = "lookup" /\ stored[LastPair] # None)
        => last_op.result = stored[LastPair]

\* C5: a cache constructed disabled reports every lookup absent, changes no
\* entry file and never creates the cache directory.
C5_DisabledCacheIsInert ==
    (cpc = "ready" /\ ~cache_enabled)
        => /\ cache_dir_exists = disk0.dir
           /\ cache_files = disk0.files
           /\ last_op.op = "lookup" => last_op.result = None

\* A disabled cache without directory, after a store of a pair and a lookup of it.
C5_Witness ==
    /\ cpc = "ready"
    /\ ~cache_enabled
    /\ ~cache_dir_exists
    /\ last_op.op = "lookup"
    /\ stored[LastPair] # None

\* C6: an entry belongs to one (model, prompt) pair: a lookup that hits an
\* entry written by this cache is a lookup of a pair that was stored.
C6_EntryBelongsToOnePair ==
    (cpc = "ready" /\ last_op.op = "lookup" /\ last_op.result # None
        /\ get_cache_key(last_op.prompt, last_op.model) \notin DOMAIN disk0.files)
        => stored[LastPair] # None

DeclaredFiles == project_structure.files
HasPath(i) == DeclaredFiles[i].path # None
FileLocation(i) == Locate(ProjectPath, DeclaredFiles[i].path)
FolderLocations == { Locate(ProjectPath, project_structure.folders[k]) :
                        k \in DOMAIN project_structure.folders }
\* The files and the directory create_project writes itself after the pool.
OwnArtifacts == { ProjectPath \o <<"requirements.txt">>, ProjectPath \o <<".gitignore">>,
                  ProjectPath \o <<"venv">>, ProjectPath \o <<"project_structure.json">> }
HoldsOwnContent(i) ==
    /\ FileLocation(i) \in DOMAIN disk.files
    /\ disk.files[FileLocation(i)] = futures[i].value
PairwiseDistinctPaths ==
    \A i, j \in DOMAIN DeclaredFiles :
        i # j => DeclaredFiles[i].path # DeclaredFiles[j].path

WellPlaced(i) ==
    /\ HasPath(i)
    /\ Inside(ProjectPath, FileLocation(i))
    /\ \A j \in DOMAIN DeclaredFiles :
          (j # i /\ HasPath(j)) =>
              /\ FileLocation(j) \notin Prefixes(FileLocation(i))
              /\ FileLocation(i) \notin Prefixes(FileLocation(j))
    /\ \A f \in FolderLocations : FileLocation(i) \notin Prefixes(f)
    /\ \A a \in OwnArtifacts : a \notin Prefixes(FileLocation(i))

TaskFailed(i) == futures[i].value \in {<<"KeyError">>, ErrorMarker(i)}

\* C8: when the generation task of exactly one declared file fails (the gateway
\* raised, or the FileSpec has no description) and all declared files are
\* well placed, create_project returns the project path, every other file
\* holds its generated content and the failing file holds the error marker.
C8_OneFailureIsContained ==
    (/\ ppc \in {"done", "failed"}
     /\ project_structure # NoStructure
     /\ Tasks # {}
     /\ \A i \in DOMAIN DeclaredFiles : WellPlaced(i)
     /\ Cardinality({ i \in Tasks : TaskFailed(i) }) = 1)
        => /\ p_result = ProjectPath
           /\ \A i \in Tasks :
                 /\ FileLocation(i) \in DOMAIN disk.files
                 /\ disk.files[FileLocation(i)] =
                        IF TaskFailed(i) THEN ErrorMarker(i) ELSE GeneratedContent(i)

\* C9: when structure generation fails, create_project returns None and the
\* disk holds nothing but base_path: no project directory, no file, no
\* recovery file.
C9_FailedStructureMaterialisesNothing ==
    structure_failed =>
        /\ ppc = "failed"
        /\ p_result = None
        /\ disk = Mkdir(EmptyDisk, BasePath)

\* create_project has ended on a failed structure generation.
C9_Witness == structure_failed /\ ppc = "failed" /\ BasePath \in disk.dirs

\* C10: every directory and every file on disk is base_path, the recovery file
\* or the project directory, or lies inside the project directory.
C10_NothingOutsideTheProject ==
    \A loc \in disk.dirs \cup DOMAIN disk.files :
        \/ loc \in Prefixes(ProjectPath)
        \/ loc = RecoveryFile
        \/ Inside(ProjectPath, loc)

NextJson == ExtractJson /\ UNCHANGED <<coreVars, textVars, structureVars, validatorVars, cliVars, fixVars, mainVars>>

InitJsonOnly == IdleCore /\ IdleText /\ InitJson /\ IdleStructure /\ IdleValidator /\ IdleCli /\ IdleFix /\ IdleMain

SpecJson == InitJsonOnly /\ [][NextJson]_vars

NextStructure == ReturnStructure /\ UNCHANGED <<coreVars, textVars, jsonVars, validatorVars, cliVars, fixVars, mainVars>>

InitStructureOnly == IdleCore /\ IdleText /\ IdleJson /\ InitStructure /\ IdleValidator /\ IdleCli /\ IdleFix /\ IdleMain

SpecStructure == InitStructureOnly /\ [][NextStructure]_vars

otherThanValidator == <<coreVars, textVars, jsonVars, structureVars, cliVars, fixVars, mainVars>>

NextValidator ==
    \/ StartPass /\ UNCHANGED otherThanValidator
    \/ ValidateImports /\ UNCHANGED otherThanValidator
    \/ ValidateSyntax /\ UNCHANGED otherThanValidator
    \/ ListingRaises /\ UNCHANGED otherThanValidator
    \/ ValidateDependencies /\ UNCHANGED otherThanValidator
    \/ ValidateStructure /\ UNCHANGED otherThanValidator
    \/ WriteReport /\ UNCHANGED otherThanValidator
    \/ WriteReportRaises /\ UNCHANGED otherThanValidator

InitValidatorOnly == IdleCore /\ IdleText /\ IdleJson /\ IdleStructure /\ InitValidator /\ IdleCli /\ IdleFix /\ IdleMain

SpecValidator == InitValidatorOnly /\ [][NextValidator]_vars

\* C11: cleaning a content twice gives what cleaning it once gives:
\* clean_code_content(clean_code_content(s)) = clean_code_content(s).
C11_CleanCodeIsIdempotent ==
    Len(cleaned) = 2 => cleaned[2] = cleaned[1]

\* The well-formed JSON objects a text contains, as pairs of positions.
ObjectsIn(text) ==
    { p \in (1..Len(text)) \X (1..Len(text)) :
        /\ p[1] < p[2]
        /\ text[p[1]] = "{"
        /\ text[p[2]] = "}"
        /\ Parses(SubSeq(text, p[1], p[2])) }

\* C12: when the response contains exactly one well-formed JSON object,
\* with prose before and after it or not, extract_json returns the text of
\* that object, unchanged.
C12_ReturnsTheOneObject ==
    extracted # NotExtracted =>
        \A p \in ObjectsIn(response) :
            Cardinality(ObjectsIn(response)) = 1 =>
                extracted = [kind |-> "returned",
                             text |-> SubSeq(response, p[1], p[2])]

\* The text with every single quote turned into a double quote.
DoubleQuoted(text) == [i \in 1..Len(text) |-> IF text[i] = SQ THEN DQ ELSE text[i]]

\* The last character before position i that is no white space.
RECURSIVE Before(_, _)
Before(text, i) ==
    IF i <= 1 THEN "BOF"
    ELSE IF text[i - 1] \in Whitespace THEN Before(text, i - 1) ELSE text[i - 1]

\* An object text whose only defect is that keys are in single quotes: no
\* single quote opens a value, and with double quotes the text is an object.
OnlySingleQuotedKeys(text) ==
    /\ text # <<>>
    /\ Head(text) = "{"
    /\ text[Len(text)] = "}"
    /\ \E i \in 1..Len(text) : text[i] = SQ
    /\ \A i \in 1..Len(text) : text[i] = SQ => Before(text, i) # ":"
    /\ Parses(DoubleQuoted(text))

\* C13: on an object text whose only defect is single-quoted keys,
\* extract_json returns valid JSON that denotes the same object, each value
\* with its type: a number stays a number.
C13_RepairKeepsTheValues ==
    (extracted # NotExtracted /\ OnlySingleQuotedKeys(response)) =>
        /\ extracted.kind = "returned"
        /\ json_loads(extracted.text).value = json_loads(DoubleQuoted(response)).value

\* The text holds an opening brace with a closing brace somewhere after it.
HasBraces(text) ==
    \E i, j \in 1..Len(text) : i < j /\ text[i] = "{" /\ text[j] = "}"

NoJsonFound == [kind |-> "ValueError", text |-> <<"Aucun JSON">>]

\* C14: extract_json returns a text that parses as JSON or raises; it raises
\* the no-JSON error exactly when no opening brace is followed by a closing
\* one, the unrecoverable error, with the decoder's message, exactly when the
\* span parses neither before nor after the repairs.
C14_ReturnsJsonOrRaises ==
    extracted # NotExtracted =>
        /\ extracted.kind \in {"returned", "ValueError"}
        /\ extracted.kind = "returned" => Parses(extracted.text)
        /\ extracted = NoJsonFound <=> ~HasBraces(response)
        /\ (extracted.kind = "ValueError" /\ extracted # NoJsonFound) <=>
               /\ HasBraces(response)
               /\ ~Parses(JsonSpan(response))
               /\ ~Parses(Repair(JsonSpan(response)))
        /\ (extracted.kind = "ValueError" /\ extracted # NoJsonFound) =>
               extracted.text = <<"Impossible de parser">>
                                  \o DecodeError(Repair(JsonSpan(response)))

\* A span that did not parse was repaired and returned.
C14_Witness ==
    /\ extracted.kind = "returned"
    /\ extracted.text # JsonSpan(response)

\* The fields that hold a collection, and the empty default of a field.
CollectionFields == {"folders", "files", "dependencies", "dev_dependencies", "commands"}
EmptyDefault(field) == IF field \in CollectionFields THEN EmptyList ELSE EmptyString

\* C15: the structure generate_project_structure returns defines every
\* field of a project structure: a field the model omitted holds its empty
\* default, a field the model supplied holds what was supplied.
C15_EveryFieldIsDefined ==
    completed =>
        \A field \in Fields :
            /\ field \in DOMAIN returned_structure
            /\ returned_structure[field] =
                   IF field \in DOMAIN parsed_object THEN parsed_object[field]
                   ELSE EmptyDefault(field)

\* A pass has returned, and not from the outer except.
PassEnded == vpc = "done" /\ results.validation_status # "error"

\* The recorded issues that are marked fixed.
FixedIssues == {i \in DOMAIN results.details : results.details[i].fixed}

\* C16: when a pass ends without an internal error, issues_found is the
\* number of recorded issues, issues_fixed the number of those marked fixed,
\* and the status is success for no issue, fixed when every issue is fixed,
\* issues_remaining otherwise.
C16_CountersAndStatusAgree ==
    PassEnded =>
        /\ results.issues_found = Len(results.details)
        /\ results.issues_fixed = Cardinality(FixedIssues)
        /\ results.issues_fixed <= results.issues_found
        /\ results.validation_status = "success" <=> results.issues_found = 0
        /\ results.validation_status = "fixed" <=>
               (results.issues_found > 0 /\ results.issues_fixed = results.issues_found)
        /\ results.validation_status = "issues_remaining" <=>
               (results.issues_found > 0 /\ results.issues_fixed # results.issues_found)

\* A pass ended with some issues fixed and some not.
C16_Witness ==
    /\ PassEnded
    /\ results.issues_fixed > 0
    /\ results.issues_fixed < results.issues_found

\* C17: when a pass ended with status success or fixed, the pass run next on
\* the same directory finds no issue.
C17_SecondPassFindsNothing ==
    (PassEnded /\ passes >= 2 /\ previous.validation_status \in {"success", "fixed"}) =>
        results.issues_found = 0

\* C18: a pass that an internal error interrupts ends with status error and
\* the message, and both the returned results and validation_report.json
\* hold the issues and counters accumulated before the error.
C18_ErrorKeepsThePartialReport ==
    (vpc = "done" /\ results.validation_status = "error") =>
        /\ results.error # None
        /\ project.report.exists
        /\ project.report.results.details = results.details
        /\ project.report.results.issues_found = results.issues_found
        /\ project.report.results.issues_fixed = results.issues_fixed

\* Every source file parses, what project_structure.json declares exists,
\* and every import names a standard module or a module of the project.
Coherent(dir) ==
    /\ \A path \in DOMAIN dir.py :
          /\ dir.py[path].parses
          /\ \A k \in DOMAIN dir.py[path].imports :
                \/ FirstComponent(dir.py[path].imports[k]) \in std_libs
                \/ is_valid(dir.py[path].imports[k], available_modules(dir))
    /\ dir.structure =>
          /\ DocsFolder \in dir.dirs
          /\ \A i \in DOMAIN DeclaredPaths : dir.py[DeclaredPaths[i]].exists

\* C19: on a coherent project a pass finds no issue and rewrites no file.
C19_CoherentProjectHasNoIssue ==
    (PassEnded /\ Coherent(project_before)) =>
        /\ results.issues_found = 0
        /\ project.py = project_before.py
        /\ project.requirements = project_before.requirements

\* The local-executable transport alone, under generate's loop.
otherThanCli == <<coreVars, textVars, jsonVars, structureVars, validatorVars, fixVars, mainVars>>

NextCli ==
    \/ CliGenerate /\ UNCHANGED otherThanCli
    \/ Mkstemp /\ UNCHANGED otherThanCli
    \/ MkstempRaises /\ UNCHANGED otherThanCli
    \/ WritePrompt /\ UNCHANGED otherThanCli
    \/ WritePromptRaises /\ UNCHANGED otherThanCli
    \/ RunExecutable /\ UNCHANGED otherThanCli
    \/ Finally /\ UNCHANGED otherThanCli

InitCliOnly ==
    IdleCore /\ IdleText /\ IdleJson /\ IdleStructure /\ IdleValidator /\ InitCli
    /\ IdleFix /\ IdleMain

SpecCli == InitCliOnly /\ [][NextCli]_vars

\* The generate call has ended: it has returned or raised.
CallEnded == k_calls > 0 /\ kpc \in {"returned", "raised"}

\* C20: once a generate call served by the local executable has ended, whatever
\* the outcome of each of its attempts, no temporary prompt file that the
\* gateway created is left in the temporary directory.
C20_NoTempFileRemains == CallEnded => created \cap temp_dir = {}

\* A call that raised after a retry, both attempts having created their file.
C20_Witness ==
    /\ kpc = "raised"
    /\ k_attempt > 0
    /\ Cardinality(created) > 1
    /\ created \cap temp_dir = {}

\* C21: construction ends in the unavailability error exactly when both probes
\* failed, and every transport attempt of every later generate call went over the
\* API if the API probe succeeded, over the executable only if that probe failed
\* (and the executable's probe succeeded).
C21_ProbesDecideTheTransport ==
    /\ gpc = "unavailable" <=> (gpc # "new" /\ ~api_available /\ ~cli_available)
    /\ \A i \in 1..Len(log) :
        /\ api_available => log[i].via = "api"
        /\ log[i].via = "cli" => ~api_available /\ cli_available
        /\ log[i].via \in {"api", "cli"}

\* Both probes succeeded and a call has made a failed and a successful attempt.
C21_Witness ==
    /\ gpc = "returned"
    /\ api_available /\ cli_available
    /\ Len(log) > 1
    /\ log[Len(log)].ok

\* An enabled cache has just been constructed.
JustConstructed == cpc = "ready" /\ n_ops = 0 /\ cache_enabled

\* The entries found at construction that were newer than max_age are present
\* with the content they had.
NewerEntriesKept ==
    \A k \in DOMAIN disk0.files :
        ~disk0.files[k].old => k \in DOMAIN cache_files /\ cache_files[k] = disk0.files[k]

\* The entries found at construction that were older than max_age are gone.
OlderEntriesGone ==
    \A k \in DOMAIN disk0.files : disk0.files[k].old => k \notin DOMAIN cache_files

otherThanFix == <<coreVars, textVars, jsonVars, structureVars, validatorVars, cliVars, mainVars>>

NextFix ==
    \/ FixProject /\ UNCHANGED otherThanFix
    \/ SkipIssue /\ UNCHANGED otherThanFix
    \/ FixIssue /\ UNCHANGED otherThanFix
    \/ FixCodeRaises /\ UNCHANGED otherThanFix
    \/ RewriteRaises /\ UNCHANGED otherThanFix
    \/ WriteFixReport /\ UNCHANGED otherThanFix
    \/ WriteFixReportRaises /\ UNCHANGED otherThanFix

InitFixOnly ==
    IdleCore /\ IdleText /\ IdleJson /\ IdleStructure /\ IdleValidator /\ IdleCli
    /\ InitFix /\ IdleMain

SpecFix == InitFixOnly /\ [][NextFix]_vars

\* The number of issues recorded so far in the three lists.
Recorded ==
    Len(fx_results.fixed_files) + Len(fx_results.skipped_files) + Len(fx_results.errors)

\* C23: every fix_project run that returns, also for an analysis without
\* issues, returns the report with fixed_count, skipped_count and error_count
\* and has written it to fix_report.json; every issue handled so far is recorded
\* in exactly one list, so the three counts add up to the number of issues.
C23_ReportCountsEveryIssue ==
    /\ fpc = "loop" => Recorded = fx_next - 1
    /\ fpc = "returned" =>
        /\ fx_returned = "report"
        /\ fx_report = [exists |-> TRUE, report |-> FixReport(fx_results)]
        /\ fx_report.report.fixed_count + fx_report.report.skipped_count
             + fx_report.report.error_count = Len(fx_issues)

\* The files listed among the fixed files of the run.
FixedFiles == { fx_results.fixed_files[i].file : i \in 1..Len(fx_results.fixed_files) }

\* The step records a failed fix_code call.
RepairCallFailed ==
    /\ Len(fx_results'.errors) = Len(fx_results.errors) + 1
    /\ fx_results'.errors[Len(fx_results'.errors)].error = "fix_code"

\* C30: after a fix_project run the backup of every file listed among the fixed
\* files holds the content the file had before the run started, also when
\* several issues name the same file; and an issue whose repair call fails leaves
\* the file unchanged and writes no backup.
C30_BackupHoldsTheOriginal ==
    /\ [](fpc = "returned" => \A f \in FixedFiles : fx_backups[f] = FixFiles[f])
    /\ [][RepairCallFailed => UNCHANGED <<fx_files, fx_backups>>]_vars

\* One run of the command line alone.
otherThanMain ==
    <<coreVars, textVars, jsonVars, structureVars, validatorVars, cliVars, fixVars>>

NextMain ==
    \/ ConstructGenerator /\ UNCHANGED otherThanMain
    \/ ApplyOverrides /\ UNCHANGED otherThanMain
    \/ ModelCall /\ UNCHANGED otherThanMain
    \/ CreateProject /\ UNCHANGED otherThanMain

InitMainOnly ==
    IdleCore /\ IdleText /\ IdleJson /\ IdleStructure /\ IdleValidator /\ IdleCli
    /\ IdleFix /\ InitMain

SpecMain == InitMainOnly /\ [][NextMain]_vars

\* C24: an override of the command line governs its run: with --no-cache no
\* generate call uses the cache, with --model every model call uses the given
\* model, and with --path the project is created under the given base path.
C24_OverridesGovernTheRun ==
    /\ \A i \in 1..Len(model_calls) :
        /\ args.no_cache => ~model_calls[i].cache
        /\ Truthy(args.model) => model_calls[i].model = args.model
    /\ mpc = "created" /\ Truthy(args.path) => project_parent = args.path

\* Step 2 of a pass has run to its end.
SyntaxStep == vpc = "syntax" /\ vpc' = "dependencies"

\* The syntax issues the step records for a file.
NewSyntaxIssues(path) ==
    { i \in (Len(results.details) + 1)..Len(results'.details) :
        results'.details[i].file = path /\ results'.details[i].type = "syntax_error" }

PackageOf(dep) ==
    LET stop == FindAny(dep, {"=", "<", ">", "~", "!", ";", "[", " "}, 1)
    IN  IF stop = 0 THEN dep ELSE SubSeq(dep, 1, stop - 1)

\* The packages the manifest declares.
Declared(lines) == { PackageOf(dep) : dep \in DependencyLines(lines) }

\* The names the step appends to the manifest.
Appended ==
    UNION { project'.requirements.lines[i].added :
              i \in (Len(project.requirements.lines) + 1)..Len(project'.requirements.lines) }

\* C26: the dependency check only adds to requirements.txt: through every step
\* of every pass the former content is an unchanged prefix of the new one, and
\* the names the check appends are exactly the top-level imported packages
\* outside the standard-library list that the manifest did not declare yet.
C26_ManifestOnlyGrows ==
    [][/\ project.requirements.exists =>
            /\ project'.requirements.exists
            /\ Len(project'.requirements.lines) >= Len(project.requirements.lines)
            /\ SubSeq(project'.requirements.lines, 1, Len(project.requirements.lines))
                 = project.requirements.lines
       /\ vpc = "dependencies" /\ vpc' = "structure" /\ project.requirements.exists =>
            Appended = imported_packages(project) \ Declared(project.requirements.lines)
      ]_vars

\* The step of a pass that runs _validate_structure.
StructureStep == vpc = "structure" /\ vpc' = "report"

\* The issues the step records for one declared folder or file.
NewStructureIssues(item) ==
    { i \in (Len(results.details) + 1)..Len(results'.details) :
        /\ results'.details[i].file = item
        /\ results'.details[i].type \in {"missing_folder", "missing_file"} }

\* The declared files, as a set.
DeclaredFileSet == { DeclaredPaths[i] : i \in 1..Len(DeclaredPaths) }

\* One issue is recorded for a declared item that was missing, none for one
\* that was there.
RecordedOnce(item, missing) ==
    IF missing THEN Cardinality(NewStructureIssues(item)) = 1
    ELSE NewStructureIssues(item) = {}

ImportStep == vpc = "imports" /\ vpc' = "syntax"

\* The imports of a file the check reports: outside the ignored list and
\* matching no module of the project.
UnresolvedImports(path) ==
    SelectSeq(project.py[path].imports,
              LAMBDA imported : /\ FirstComponent(imported) \notin IgnoredImports
                                /\ ~is_valid(imported, available_modules(project)))

\* The import issues the step records for a file, in the order of its imports.
NewImportIssues(path) ==
    SelectSeq(SubSeq(results'.details, Len(results.details) + 1, Len(results'.details)),
              LAMBDA issue : issue.file = path /\ issue.type = "import_error")

\* The import targets of a file after the step.
ImportsAfter(path) == { project'.py[path].imports[i] : i \in 1..Len(project'.py[path].imports) }

\* C29: after the import-coherence check, every import_error issue recorded
\* with fixed = true corresponds to the file on disk: the unresolved import is
\* no longer present and a module of the project that holds its last component
\* stands in its place; with several fixed imports in one file, all their
\* substitutions are present.
C29_FixedImportsAreInTheFile ==
    [][ImportStep =>
          \A path \in { q \in DOMAIN project.py : project.py[q].exists } :
              /\ Len(NewImportIssues(path)) = Len(UnresolvedImports(path))
              /\ \A k \in 1..Len(NewImportIssues(path)) :
                    NewImportIssues(path)[k].fixed =>
                        /\ UnresolvedImports(path)[k] \notin ImportsAfter(path)
                        /\ \E module \in available_modules(project) :
                              /\ Contains(module, LastComponent(UnresolvedImports(path)[k]))
                              /\ module \in ImportsAfter(path)
      ]_vars

\* The declared files that share their path with another declared file.
Duplicates ==
    { i \in DOMAIN DeclaredFiles :
        /\ HasPath(i)
        /\ \E j \in DOMAIN DeclaredFiles : j # i /\ DeclaredFiles[j].path = DeclaredFiles[i].path }

\* The result of task i is processed in this step.
Processed(i) == futures[i].state \in {"returned", "raised"} /\ futures'[i].state = "handled"

\* Processing the result of task i leaves that task's content in its file.
HoldsProcessedContent(i) ==
    /\ FileLocation(i) \in DOMAIN disk'.files
    /\ disk'.files[FileLocation(i)] = futures[i].value
    /\ futures[i].value \in {GeneratedContent(i), ErrorMarker(i)}

\* The step processes no result for the path of task i.
NoneProcessedFor(i) ==
    \A j \in Duplicates : DeclaredFiles[j].path = DeclaredFiles[i].path => ~Processed(j)

\* The file of task i is after the step what it was before.
FileUntouched(i) ==
    IF FileLocation(i) \in DOMAIN disk.files
    THEN /\ FileLocation(i) \in DOMAIN disk'.files
         /\ disk'.files[FileLocation(i)] = disk.files[FileLocation(i)]
    ELSE FileLocation(i) \notin DOMAIN disk'.files

\* C28: when two declared FileSpecs share a path, for every order in which the
\* tasks complete and their results are processed, the file holds the whole
\* content returned by the task whose result was processed last: processing a
\* result leaves exactly that task's content in the file, no other step of the
\* generation touches it, no error is logged for either task and
\* create_project returns the project path.
C28_DuplicatePathLastWriteWins ==
    /\ [][(ppc = "pool" \/ ppc = "done") =>
            \A i \in Duplicates : /\ Processed(i) => HoldsProcessedContent(i)
                                  /\ NoneProcessedFor(i) => FileUntouched(i)]_vars
    /\ [](Duplicates # {} =>
            /\ logged \cap Duplicates = {}
            /\ ppc # "failed"
            /\ ppc = "done" => p_result = ProjectPath)

\* create_project has returned for a structure that declares main.py twice:
\* both tasks returned a content, and the file holds that of the first
\* declaration, whose result was processed after that of the second.
C28_Witness ==
    /\ ppc = "done"
    /\ Duplicates = {1, 2}
    /\ futures[1].value = GeneratedContent(1)
    /\ futures[2].value = GeneratedContent(2)
    /\ disk.files[FileLocation(1)] = GeneratedContent(1)

====
